---- MODULE Spec2Model ----
(***************************************************************************)
(* Model of the resybot task execution engine (src/src/bot/executor.py):   *)
(* the per-task polling/booking loop execute_task, the shared global       *)
(* backoff timestamp, the shared stats, and run_tasks starting one worker  *)
(* per task.                                                               *)
(*                                                                         *)
(* Time is in milliseconds (the code mixes seconds, for Retry-After and    *)
(* the backoffs, with milliseconds, for the delays and staggers; seconds   *)
(* are multiplied by 1000 here).  Every timestamp is kept relative to the  *)
(* current time.time(): _global_backoff_until holds the ms from now until  *)
(* the stored timestamp (0 once it is not in the future), and sleep_left   *)
(* the ms a worker's time.sleep still has to run.  Tick lets time pass up  *)
(* to the next expiry.  A worker may run later than the end of its sleep   *)
(* (thread scheduling), never earlier.  The wall clock is_burst_time reads *)
(* is an input of each iteration.                                          *)
(*                                                                         *)
(* Strings the code parses (HH:MM:SS, slot config tokens) are sequences of *)
(* one-character strings, split and converted as the code does it.         *)
(***************************************************************************)
EXTENDS Integers, Sequences, FiniteSets, TLC

VARIABLES
    tasks,                  \* the list handed to run_tasks (immutable)
    service,                \* which answers the remote service gives in this run
    _global_backoff_until,  \* executor._global_backoff_until, ms from now
    _stats,                 \* executor._stats
    runner,                 \* per thread_index: locals of execute_task, and
                            \* the worker's history (fields h_...)
    imposer,                \* history: thread_index whose set_global_backoff
                            \* call last raised the cooldown, -1 if none
    reporting,              \* whether status reports fall due during this run
    reports,                \* what get_and_reset_stats returned to
                            \* status_reporter, oldest first
    h_stats,                \* history: the increment_scan_count and
                            \* record_availability calls completed so far, and
                            \* those completed since the last report
    call,                   \* a call of filter_slots_by_time, of is_burst_time
                            \* or of make_request_with_retry taken by itself:
                            \* its arguments, its locals and its outcome; or,
                            \* per thread, its call of set_global_backoff or
                            \* wait_for_global_backoff taken statement by
                            \* statement
    orchestrator,           \* run_tasks: where it is, the workers whose future
                            \* it has taken from as_completed, and those it
                            \* logged as failed
    _shutdown_event,        \* scripts/run.py _shutdown_event: whether it is set
    _global_backoff_lock    \* executor._global_backoff_lock: the thread that
                            \* holds it, -1 if it is free

vars == <<tasks, service, _global_backoff_until, _stats, runner, imposer,
          reporting, reports, h_stats, call,
                   orchestrator, _shutdown_event,
                   _global_backoff_lock>>

----------------------------------------------------------------------------
(* Bounds of the model *)

\* number of tasks handed to run_tasks
MaxTasks == 2

\* number of loop iterations (scans) of a worker running alone
MaxScans == 5

\* number of loop iterations (scans) of two workers together; every further
\* worker makes one fewer
MaxConcurrentScans == 3

\* number of loop iterations (scans) of a lone worker in a run during which
\* status reports fall due; several workers together make one fewer
MaxReportedScans == 2

\* number of status reports in a run
MaxReports == 2

\* number of loop iterations (scans) one or two workers together start while
\* the service is failing; every further worker makes one fewer
MaxFailingScans == 1

\* number of loop iterations (scans) a worker starts once the service has
\* turned good, beyond the other bounds
MaxGoodScans == 1

\* number of calls of set_global_backoff and wait_for_global_backoff a thread
\* makes when these are taken statement by statement
MaxLockCalls == 2

----------------------------------------------------------------------------
(* Program constants *)

stagger_burst_ms == 30
stagger_idle_ms == 500
burst_delay_ms == 100
idle_delay_ms == 1500
resy_start_time == 16
resy_end_time == 23
resy_min_days_out == 2
resy_max_days_out == 21
DefaultRetryAfterBurst == 5
DefaultRetryAfterIdle == 60
DefaultRetryAfterDetails == 60
DefaultRetryAfterBook == 60

\* settings.burst_start = "08:59:50", settings.burst_end = "09:01:00"
settings_burst_start == <<"0", "8", ":", "5", "9", ":", "5", "0">>
settings_burst_end == <<"0", "9", ":", "0", "1", ":", "0", "0">>

Min(a, b) == IF a < b THEN a ELSE b
Max(a, b) == IF a > b THEN a ELSE b

----------------------------------------------------------------------------
(* Strings: str.split(sep) and int(str) *)

Digits == {"0", "1", "2", "3", "4", "5", "6", "7", "8", "9"}

DigitValue(c) ==
    CASE c = "0" -> 0 [] c = "1" -> 1 [] c = "2" -> 2 [] c = "3" -> 3
      [] c = "4" -> 4 [] c = "5" -> 5 [] c = "6" -> 6 [] c = "7" -> 7
      [] c = "8" -> 8 [] c = "9" -> 9

\* s.split(sep): the list of the pieces between separators ("" gives [""])
Split(s, sep) ==
    LET RECURSIVE go(_, _, _)
        go(i, cur, acc) ==
            IF i > Len(s) THEN Append(acc, cur)
            ELSE IF s[i] = sep THEN go(i + 1, <<>>, Append(acc, cur))
            ELSE go(i + 1, Append(cur, s[i]), acc)
    IN go(1, <<>>, <<>>)

\* int(s) succeeds on a non-empty run of decimal digits (the alphabet of the
\* model has no sign, blank or underscore), and raises ValueError otherwise
IntOk(s) == Len(s) > 0 /\ \A i \in 1..Len(s) : s[i] \in Digits

RECURSIVE IntOf(_)
IntOf(s) ==
    IF s = <<>> THEN 0
    ELSE IntOf(SubSeq(s, 1, Len(s) - 1)) * 10 + DigitValue(s[Len(s)])

----------------------------------------------------------------------------
(* Timing policy *)

\* dt_time(h, m, s) raises ValueError outside 0..23, 0..59, 0..59
TimeOk(parts) ==
    /\ Len(parts) >= 2
    /\ IntOk(parts[1]) /\ IntOk(parts[2])
    /\ (Len(parts) > 2 => IntOk(parts[3]))
    /\ IntOf(parts[1]) \in 0..23
    /\ IntOf(parts[2]) \in 0..59
    /\ (Len(parts) > 2 => IntOf(parts[3]) \in 0..59)

\* dt_time(h, m, s) as ms since midnight; the order of dt_time values is the
\* order of these numbers
TimeMs(parts) ==
    ((IntOf(parts[1]) * 60 + IntOf(parts[2])) * 60
        + (IF Len(parts) > 2 THEN IntOf(parts[3]) ELSE 0)) * 1000

is_burst_time_raises(burst_start, burst_end) ==
    ~ (TimeOk(Split(burst_start, ":")) /\ TimeOk(Split(burst_end, ":")))

\* a window that leaves out its two boundary instants
is_burst_time_open_window(current_time, burst_start, burst_end) ==
    LET start == TimeMs(Split(burst_start, ":"))
        end == TimeMs(Split(burst_end, ":"))
    IN start < current_time /\ current_time < end

\* current_time: datetime.now(ET).time(), ms since midnight
is_burst_time(current_time, burst_start, burst_end) ==
    LET start == TimeMs(Split(burst_start, ":"))
        end == TimeMs(Split(burst_end, ":"))
    IN start <= current_time /\ current_time <= end

get_current_delay(task, in_burst_mode) ==
    IF in_burst_mode THEN task.burst_delay ELSE task.idle_delay

\* what datetime.now(ET).time() may read at the top of an iteration:
\* 08:59:49.999, 08:59:50.000, 09:00:30.000, 09:01:00.000, 09:01:00.001, 12:00
ClockReadings ==
    { ((8 * 60 + 59) * 60 + 49) * 1000 + 999,
      ((8 * 60 + 59) * 60 + 50) * 1000,
      ((9 * 60 + 0) * 60 + 30) * 1000,
      ((9 * 60 + 1) * 60 + 0) * 1000,
      ((9 * 60 + 1) * 60 + 0) * 1000 + 1,
      12 * 60 * 60 * 1000 }

----------------------------------------------------------------------------
(* Backoff coordinator *)

\* set_global_backoff without the comparison: the latest caller's expiry wins
set_global_backoff_overwrites(seconds) == seconds * 1000

\* the value set_global_backoff(seconds) leaves in _global_backoff_until
\* (new_until = time.time() + seconds, relative to time.time())
set_global_backoff(seconds) ==
    LET new_until == seconds * 1000
    IN IF new_until > _global_backoff_until THEN new_until
       ELSE _global_backoff_until

\* wait_time = _global_backoff_until - time.time(), computed by
\* wait_for_global_backoff under the lock
wait_for_global_backoff == _global_backoff_until

----------------------------------------------------------------------------
(* Stats aggregator *)

\* a counter that is never incremented
increment_scan_count_not_counted(st) == st

increment_scan_count(st) == [st EXCEPT !.scan_count = @ + 1]

record_availability(st, date) ==
    [st EXCEPT !.availability_seen =
        IF date \in DOMAIN @ THEN [@ EXCEPT ![date] = @ + 1]
        ELSE [d \in DOMAIN @ \cup {date} |-> IF d = date THEN 0 + 1 ELSE @[d]]]

\* The dict objects matter to what a report shows later: seen_id names the
\* dict object a record's availability_seen refers to, and a recording
\* changes every record that refers to the dict it updates.
record_in_reports(rs, st, date) ==
    [i \in DOMAIN rs |->
        IF rs[i].seen_id = st.seen_id THEN record_availability(rs[i], date)
        ELSE rs[i]]

\* a drain that returns the values and leaves the counters as they are
get_and_reset_stats_keeps_counts(st, fresh) ==
    [ret |-> [scan_count |-> st.scan_count,
              availability_seen |-> st.availability_seen,
              seen_id |-> fresh],
     st |-> st]

\* a drain that returns the live dict and empties it in place
get_and_reset_stats_in_place(st, fresh) ==
    [ret |-> [scan_count |-> st.scan_count,
              availability_seen |-> <<>>,
              seen_id |-> st.seen_id],
     st |-> [scan_count |-> 0, availability_seen |-> <<>>, seen_id |-> st.seen_id]]

\* get_and_reset_stats, under _stats_lock: ret is the returned pair, whose map
\* is the copy dict(_stats["availability_seen"]) (a new object, fresh); st is
\* _stats afterwards, whose map is a new empty dict (fresh + 1)
get_and_reset_stats(st, fresh) ==
    [ret |-> [scan_count |-> st.scan_count,
              availability_seen |-> st.availability_seen,
              seen_id |-> fresh],
     st |-> [scan_count |-> 0, availability_seen |-> <<>>, seen_id |-> fresh + 1]]

----------------------------------------------------------------------------
(* Slot filter *)

\* a filter whose window leaves out the hour end_time
filter_slots_by_time_before_end(slots, task) ==
    LET parts(i) == Split(slots[i].token, "/")
        hour(i) == Split(parts(i)[9], ":")[1]
        parsed(i) == Len(parts(i)) > 8
        RECURSIVE go(_, _)
        go(i, acc) ==
            IF i > Len(slots) THEN [raised |-> FALSE, valid |-> acc]
            ELSE IF ~ parsed(i) THEN go(i + 1, acc)
            ELSE IF ~ IntOk(hour(i)) THEN [raised |-> TRUE, valid |-> <<>>]
            ELSE IF task.start_time <= IntOf(hour(i)) /\ IntOf(hour(i)) < task.end_time
                 THEN go(i + 1, Append(acc,
                        [time_str |-> SubSeq(parts(i)[9], 1, Min(5, Len(parts(i)[9]))),
                         config_token |-> slots[i].token]))
            ELSE go(i + 1, acc)
    IN go(1, <<>>)

\* filter_slots_by_time: the (time_str, config_token) pairs kept, in input
\* order; raised is TRUE when int() raises on some slot's hour field
filter_slots_by_time(slots, task) ==
    LET parts(i) == Split(slots[i].token, "/")
        hour(i) == Split(parts(i)[9], ":")[1]
        parsed(i) == Len(parts(i)) > 8
        RECURSIVE go(_, _)
        go(i, acc) ==
            IF i > Len(slots) THEN [raised |-> FALSE, valid |-> acc]
            ELSE IF ~ parsed(i) THEN go(i + 1, acc)
            ELSE IF ~ IntOk(hour(i)) THEN [raised |-> TRUE, valid |-> <<>>]
            ELSE IF task.start_time <= IntOf(hour(i)) /\ IntOf(hour(i)) <= task.end_time
                 THEN go(i + 1, Append(acc,
                        [time_str |-> SubSeq(parts(i)[9], 1, Min(5, Len(parts(i)[9]))),
                         config_token |-> slots[i].token]))
            ELSE go(i + 1, acc)
    IN go(1, <<>>)

----------------------------------------------------------------------------
(* Inputs: the task configurations and what the remote service answers *)

\* a BURST_START the environment may hold that dt_time rejects: "24:00"
malformed_burst_start == <<"2", "4", ":", "0", "0">>

\* (max_retries, base_backoff, max_backoff, burst_start) of the settings the
\* tasks are built from; the settings are environment strings and numbers that
\* nothing validates beyond their type
settings_retry ==
    [max_retries |-> 5, base_backoff |-> 2, max_backoff |-> 30,
     burst_start |-> settings_burst_start]

RetryConfigs ==
    { settings_retry,
      [max_retries |-> 3, base_backoff |-> 2, max_backoff |-> 3,
       burst_start |-> settings_burst_start],
      [max_retries |-> 5, base_backoff |-> 2, max_backoff |-> 30,
       burst_start |-> malformed_burst_start] }

\* a credential check that lets every token through
check_token_expiry_accepts_all(auth_token) == TRUE

\* auth_token stands for the JWT; check_token_expiry decodes it and compares
\* its exp with the clock
AuthTokens == {"valid", "expired"}

check_token_expiry(auth_token) == auth_token = "valid"

\* create_tasks: one task per party size, all from the same settings
create_tasks(n, rc, tok) ==
    [i \in 1..n |->
        [auth_token |-> tok,
         party_size |-> i + 1,
         start_time |-> resy_start_time,
         end_time |-> resy_end_time,
         min_days_out |-> resy_min_days_out,
         max_days_out |-> resy_max_days_out,
         burst_start |-> rc.burst_start,
         burst_end |-> settings_burst_end,
         burst_delay |-> burst_delay_ms,
         idle_delay |-> idle_delay_ms,
         max_retries |-> rc.max_retries,
         base_backoff |-> rc.base_backoff,
         max_backoff |-> rc.max_backoff]]

\* the Retry-After header of a 429: absent (<<>>) or a number of seconds
RetryAfterHeaders == {<<>>, <<7>>}

\* a handler that never reads the Retry-After header
retry_after_ignores_header(header, default) == default

\* int(response.headers.get("Retry-After", default))
retry_after(header, default) == IF header = <<>> THEN default ELSE header[1]

\* a config token "rgs://resy/8/1/2/d/d/HH:00:00/2/T" of a slot starting at HH
Token(h1, h2) ==
    <<"r", "g", "s", ":", "/", "/", "r", "e", "s", "y", "/", "8", "/", "1", "/",
      "2", "/", "d", "/", "d", "/", h1, h2, ":", "0", "0", ":", "0", "0", "/",
      "2", "/", "T">>

Slot(tok) == [token |-> tok]

\* the slots of venues[0] in a slot-search answer
SlotLists ==
    { <<>>,
      <<Slot(Token("1", "5"))>>,
      <<Slot(Token("1", "9"))>>,
      <<Slot(Token("1", "5")), Slot(Token("1", "9")), Slot(Token("2", "0"))>> }

Exceptions == {"Timeout", "ConnectionError", "Exception"}

Resp(kind, status, ra, body) ==
    [kind |-> kind, status |-> status, retry_after |-> ra, body |-> body]

NoFindBody == [has_results |-> FALSE, has_venues |-> FALSE, slots |-> <<>>]

\* answers to GET /4/find: an exception of session.get, or a status with
\* (for 200) the JSON body
FindResponses ==
    { Resp(e, 0, <<>>, NoFindBody) : e \in Exceptions }
    \cup { Resp("http", 429, ra, NoFindBody) : ra \in RetryAfterHeaders }
    \cup { Resp("http", 500, <<>>, NoFindBody) }
    \cup { Resp("http", 200, <<>>, NoFindBody),
           Resp("http", 200, <<>>, [has_results |-> TRUE, has_venues |-> FALSE, slots |-> <<>>]) }
    \cup { Resp("http", 200, <<>>, [has_results |-> TRUE, has_venues |-> TRUE, slots |-> sl]) :
             sl \in SlotLists }

Entry(d, res) == [date |-> d, reservation |-> res]

\* data["scheduled"] of a calendar answer; dates are days from today;
\* "missing" is an entry without inventory/reservation
ScheduledLists ==
    { <<>>,
      <<Entry(21, "available")>>,
      <<Entry(1, "available"), Entry(2, "available"), Entry(3, "sold-out"),
        Entry(21, "available"), Entry(22, "available")>>,
      <<Entry(2, "missing")>> }

NoCalBody == [has_scheduled |-> FALSE, scheduled |-> <<>>]

\* answers to GET /4/venue/calendar
CalendarResponses ==
    { Resp(e, 0, <<>>, NoCalBody) : e \in Exceptions }
    \cup { Resp("http", 429, ra, NoCalBody) : ra \in RetryAfterHeaders }
    \cup { Resp("http", 500, <<>>, NoCalBody) }
    \cup { Resp("http", 200, <<>>, NoCalBody) }
    \cup { Resp("http", 200, <<>>, [has_scheduled |-> TRUE, scheduled |-> sc]) :
             sc \in ScheduledLists }

\* answers to GET /3/details: body is TRUE when book_token.value is present
DetailsResponses ==
    { Resp("Exception", 0, <<>>, FALSE),
      Resp("http", 429, <<>>, FALSE),
      Resp("http", 429, <<7>>, FALSE),
      Resp("http", 500, <<>>, FALSE),
      Resp("http", 200, <<>>, FALSE),
      Resp("http", 200, <<>>, TRUE) }

\* answers to POST /3/book: body names what the JSON holds; "not_object" is
\* JSON that is no object (null, a list), on which the tests of lines 313-316
\* or result.get of line 337 raise
BookResponses ==
    { Resp("Exception", 0, <<>>, "none"),
      Resp("http", 429, <<>>, "none"),
      Resp("http", 429, <<7>>, "none"),
      Resp("http", 200, <<>>, "reservation_id"),
      Resp("http", 200, <<>>, "specs.reservation_id"),
      Resp("http", 412, <<>>, "message"),
      Resp("http", 200, <<>>, "not_object") }

\* what the history keeps of an answer: where it came from and its head
Seen(endpoint, resp) ==
    [endpoint |-> endpoint, kind |-> resp.kind, status |-> resp.status,
     retry_after |-> resp.retry_after]

\* The answers of a service that never offers a bookable slot (the runs with
\* several workers draw from these)
LeanFindResponses ==
    { Resp("Timeout", 0, <<>>, NoFindBody),
      Resp("http", 429, <<>>, NoFindBody),
      Resp("http", 429, <<7>>, NoFindBody),
      Resp("http", 500, <<>>, NoFindBody),
      Resp("http", 200, <<>>, [has_results |-> TRUE, has_venues |-> FALSE, slots |-> <<>>]),
      Resp("http", 200, <<>>, [has_results |-> TRUE, has_venues |-> TRUE,
                               slots |-> <<Slot(Token("1", "5"))>>]) }

LeanCalendarResponses ==
    { Resp("Timeout", 0, <<>>, NoCalBody),
      Resp("http", 429, <<>>, NoCalBody),
      Resp("http", 429, <<7>>, NoCalBody),
      Resp("http", 500, <<>>, NoCalBody),
      Resp("http", 200, <<>>, [has_scheduled |-> TRUE, scheduled |-> <<>>]),
      Resp("http", 200, <<>>, [has_scheduled |-> TRUE,
                               scheduled |-> <<Entry(21, "available")>>]) }

\* The answers of a failing service: no answer in time, or a rate limit
FailingFindResponses ==
    { Resp("Timeout", 0, <<>>, NoFindBody),
      Resp("http", 429, <<>>, NoFindBody) }

FailingCalendarResponses ==
    { Resp("Timeout", 0, <<>>, NoCalBody),
      Resp("http", 429, <<>>, NoCalBody) }

\* The answers of a service in the runs during which status reports fall due
StatsFindResponses ==
    { Resp("http", 429, <<>>, NoFindBody),
      Resp("http", 200, <<>>, [has_results |-> TRUE, has_venues |-> TRUE,
                               slots |-> <<Slot(Token("1", "9"))>>]) }

StatsCalendarResponses ==
    { Resp("http", 500, <<>>, NoCalBody),
      Resp("http", 200, <<>>, [has_scheduled |-> TRUE,
                               scheduled |-> <<Entry(21, "available")>>]) }

StatsDetailsResponses ==
    { Resp("http", 200, <<>>, FALSE),
      Resp("http", 200, <<>>, TRUE) }

StatsBookResponses ==
    { Resp("http", 200, <<>>, "reservation_id"),
      Resp("http", 412, <<>>, "message") }

\* The answers of a service that has turned good: every availability query
\* is answered 200 with a bookable slot inside the window, every token fetch
\* gives a token and every booking submission a reservation id
GoodFindResponses ==
    { Resp("http", 200, <<>>, [has_results |-> TRUE, has_venues |-> TRUE,
                               slots |-> <<Slot(Token("1", "5")), Slot(Token("1", "9")),
                                           Slot(Token("2", "0"))>>]) }

GoodCalendarResponses ==
    { Resp("http", 200, <<>>, [has_scheduled |-> TRUE,
                               scheduled |-> <<Entry(21, "available")>>]) }

GoodDetailsResponses == { Resp("http", 200, <<>>, TRUE) }

GoodBookResponses == { Resp("http", 200, <<>>, "reservation_id") }

NoResp == [endpoint |-> "none", kind |-> "none", status |-> 0, retry_after |-> <<>>]

----------------------------------------------------------------------------
(* Task runner: execute_task *)

Workers == 0..(Len(tasks) - 1)

TaskOf(w) == tasks[w + 1]

Terminal == {"BOOKED", "ABORTED", "CRASHED"}

Alone == Len(tasks) = 1

FindAnswers ==
    CASE service = "full" -> FindResponses
      [] service = "lean" -> LeanFindResponses
      [] service = "stats" -> StatsFindResponses
      [] service = "good" -> GoodFindResponses
      [] service = "failing" -> FailingFindResponses

CalendarAnswers ==
    CASE service = "full" -> CalendarResponses
      [] service = "lean" -> LeanCalendarResponses
      [] service = "stats" -> StatsCalendarResponses
      [] service = "good" -> GoodCalendarResponses
      [] service = "failing" -> FailingCalendarResponses

DetailsAnswers ==
    CASE service = "stats" -> StatsDetailsResponses
      [] service = "good" -> GoodDetailsResponses
      [] OTHER -> DetailsResponses

\* what becomes of a notification: no bot token or chat id is configured, the
\* post is answered 200, it is answered with another status, or it raises
TelegramOutcomes == {"disabled", "delivered", "refused", "error"}

BookAnswers ==
    CASE service = "stats" -> StatsBookResponses
      [] service = "good" -> GoodBookResponses
      [] OTHER -> BookResponses

TelegramAnswers ==
    IF service \in {"stats", "good"} THEN {"disabled"} ELSE TelegramOutcomes

TotalScans ==
    LET RECURSIVE sum(_)
        sum(w) == IF w < 0 THEN 0 ELSE runner[w].scan_count + sum(w - 1)
    IN sum(Len(tasks) - 1)

\* the model stops starting iterations at its bounds
WithinBounds ==
    TotalScans < (IF service = "failing"
                  THEN (IF Alone THEN MaxFailingScans
                        ELSE MaxFailingScans - (Len(tasks) - 2))
                  ELSE IF reporting
                  THEN (IF Alone THEN MaxReportedScans ELSE MaxReportedScans - 1)
                  ELSE IF Alone THEN MaxScans
                  ELSE MaxConcurrentScans - (Len(tasks) - 2))

\* where a worker is between two iterations: before the next one starts, or
\* in the wait or sleep that follows the last one
BetweenIterations == {"loop", "gb_sleep", "backoff_sleep", "maxretry_sleep"}

\* h_iter is the history of the iteration the worker is in: what the calendar
\* answer was ("none", "ok", "no_scheduled", "bad_entry") and its scheduled
\* list, the calendar and slot-search requests issued and the dates searched,
\* and whether try_book_slots is running or has returned False ("none",
\* "running", "left") with the failure tracking it was called under. It
\* outlives the iteration by one step, like h_resp.
NoIter ==
    [cal |-> "none", scheduled |-> <<>>, cal_calls |-> 0, find_calls |-> 0,
     searched |-> <<>>, seq |-> "none", cf0 |-> 0, cb0 |-> 0]

\* a loop that logs the mode of every iteration
mode_log_every_iteration(in_burst, was_in_burst) ==
    IF in_burst THEN "enter" ELSE "exit"

\* lines 394-404: which mode transition the iteration logs
mode_log(in_burst, was_in_burst) ==
    IF in_burst /\ ~was_in_burst THEN "enter"
    ELSE IF ~in_burst /\ was_in_burst THEN "exit"
    ELSE "none"

\* h_resp, h_await_clear, h_req_in_cooldown, h_body, h_telegram and h_mode_log
\* describe the worker's latest step; they are cleared when the worker steps
\* again and when time passes
Fresh(r) ==
    [r EXCEPT !.h_resp = NoResp, !.h_await_clear = "none", !.h_req_in_cooldown = FALSE,
              !.h_body = "none", !.h_telegram = "none", !.h_mode_log = "none",
              !.h_iter = IF r.pc \in BetweenIterations THEN NoIter ELSE @]

\* the locals an iteration leaves behind are dead once it ends, and so is
\* the history of the iteration (h_dates, h_candidates, h_book_calls)
EndIteration(r) ==
    [r EXCEPT !.target_date = 0, !.dates = <<>>, !.valid_slots = <<>>,
              !.h_dates = 0, !.h_candidates = 0, !.h_book_calls = 0]

\* session.get(...) of the first availability query of an iteration leaves
\* the worker; the history notes whether this is a later iteration's request
\* issued while a cooldown imposed by another worker is still running
IssueRequest(r, w, pc) ==
    [r EXCEPT !.pc = pc,
              !.h_iter =
                  IF pc = "calendar" THEN [NoIter EXCEPT !.cal_calls = 1]
                  ELSE [NoIter EXCEPT !.find_calls = 1, !.searched = <<r.target_date>>],
              !.h_req_in_cooldown =
                  (r.scan_count > 1 /\ _global_backoff_until > 0
                     /\ imposer # -1 /\ imposer # w)]

\* burst handlers of Timeout and ConnectionError that take the idle branch's
\* failure backoff
burst_retry_counts_failure(r, task) ==
    [EndIteration(r) EXCEPT !.consecutive_failures = @ + 1,
                            !.pc = "backoff_sleep",
                            !.sleep_left = r.current_backoff * 1000]

\* time.sleep(task.burst_delay / 1000); continue  -- the burst branch's
\* handlers of Timeout and ConnectionError
burst_retry(r, task) ==
    [EndIteration(r) EXCEPT !.pc = "loop", !.sleep_left = task.burst_delay]

\* a 429 handler that also counts the answer as a failure
rate_limited_counts_failure(r, seconds) ==
    [EndIteration(r) EXCEPT !.pc = "loop", !.sleep_left = seconds * 1000,
                            !.consecutive_failures = @ + 1]

\* set_global_backoff(retry_after) is in the step's Out;
\* time.sleep(retry_after); continue
rate_limited(r, seconds) ==
    [EndIteration(r) EXCEPT !.pc = "loop", !.sleep_left = seconds * 1000]

\* doubling without the cap
next_backoff_uncapped(current_backoff, task) == current_backoff * 2

\* min(current_backoff * 2, task.max_backoff)
next_backoff(current_backoff, task) == Min(current_backoff * 2, task.max_backoff)

\* the pause taken one failure late
max_retries_exceeded(consecutive_failures, task) ==
    consecutive_failures > task.max_retries

\* consecutive_failures >= task.max_retries
max_retries_reached(consecutive_failures, task) ==
    consecutive_failures >= task.max_retries

\* the failure path up to its sleep: consecutive_failures += 1, then
\* time.sleep(task.max_backoff) or time.sleep(current_backoff); what follows
\* the sleep is AfterMaxRetriesPause or AfterBackoffSleep
counted_failure(r, task) ==
    LET cf == r.consecutive_failures + 1
        pause == max_retries_reached(cf, task)
        secs == IF pause THEN task.max_backoff ELSE r.current_backoff
    IN [EndIteration(r) EXCEPT
            !.consecutive_failures = cf,
            !.pc = IF pause THEN "maxretry_sleep" ELSE "backoff_sleep",
            !.sleep_left = secs * 1000,
            !.h_fail_sleeps =
                IF Len(@) >= task.max_retries THEN <<secs * 1000>>
                ELSE Append(@, secs * 1000),
            !.h_streak = @ + 1]

\* if response.status_code != 200 (calendar): lines 489-509
calendar_non200(r, task) == counted_failure(r, task)

\* except requests.exceptions.Timeout / ConnectionError / Exception of the loop
except_handler(r, task) == counted_failure(r, task)

\* consecutive_failures = 0; current_backoff = task.base_backoff
reset_failure_tracking(r, task) ==
    [r EXCEPT !.consecutive_failures = 0, !.current_backoff = task.base_backoff]

\* a delay that takes the idle values in either mode
total_delay_idle_always(task, in_burst, thread_index) ==
    task.idle_delay + thread_index * stagger_idle_ms

\* the sleep that ends a scan: (delay + stagger) / 1000
total_delay(task, in_burst, thread_index) ==
    IF in_burst THEN task.burst_delay + thread_index * stagger_burst_ms
    ELSE get_current_delay(task, in_burst) + thread_index * stagger_idle_ms

delay_sleep(r, w) ==
    [EndIteration(r) EXCEPT !.pc = "loop",
                            !.sleep_left = total_delay(TaskOf(w), r.in_burst, w)]

\* wait_for_global_backoff() and the delay after it (lines 462-465, 600-606):
\* with no wait the call returns at once and the delay sleep starts
scan_delay(r, w) ==
    IF wait_for_global_backoff > 0
    THEN [EndIteration(r) EXCEPT !.pc = "gb_sleep",
                                !.sleep_left = wait_for_global_backoff]
    ELSE [delay_sleep(r, w) EXCEPT !.h_await_clear = "past"]

\* a selection that looks at the availability flag only
available_dates_any_distance(scheduled, task) ==
    LET RECURSIVE go(_)
        go(i) == IF i > Len(scheduled) THEN <<>>
                 ELSE IF scheduled[i].reservation = "available"
                 THEN <<scheduled[i].date>> \o go(i + 1)
                 ELSE go(i + 1)
    IN go(1)

\* the dates the idle scan searches: flagged available and within
\* [min_days_out, max_days_out] of today, in the order of the answer
available_dates(scheduled, task) ==
    LET keep(e) == /\ e.reservation = "available"
                   /\ task.min_days_out <= e.date
                   /\ e.date <= task.max_days_out
        RECURSIVE go(_)
        go(i) == IF i > Len(scheduled) THEN <<>>
                 ELSE IF keep(scheduled[i]) THEN <<scheduled[i].date>> \o go(i + 1)
                 ELSE go(i + 1)
    IN go(1)

\* entry["inventory"]["reservation"] raises KeyError
scheduled_raises(scheduled) ==
    \E i \in 1..Len(scheduled) : scheduled[i].reservation = "missing"

\* the for loop over the available dates: the slot search for the next one,
\* or the end of the scan
next_date(r, w) ==
    IF r.dates = <<>> THEN scan_delay(r, w)
    ELSE [r EXCEPT !.pc = "idle_find",
                   !.target_date = Head(r.dates),
                   !.dates = Tail(r.dates),
                   !.valid_slots = <<>>,
                   !.h_candidates = 0,
                   !.h_iter.find_calls = @ + 1,
                   !.h_iter.searched = Append(@, Head(r.dates))]

\* a sequencer whose failure is counted like a failed scan
booking_failed_counts_failure(r, w) ==
    except_handler([r EXCEPT !.h_iter.seq = "left"], TaskOf(w))

\* try_book_slots returned False
booking_failed(r, w) ==
    IF r.in_burst THEN scan_delay([r EXCEPT !.h_iter.seq = "left"], w)
    ELSE next_date([r EXCEPT !.h_iter.seq = "left"], w)

\* try_book_slots: the for loop moves to the next candidate (valid_slots holds
\* the candidates from the current one on)
next_slot(r, w) ==
    IF r.valid_slots = <<>> THEN booking_failed(r, w)
    ELSE [r EXCEPT !.pc = "details"]

\* try_book_slots(valid_slots, ...) is called with the candidates the filter kept
try_book_slots(r, w, valid_slots) ==
    next_slot([r EXCEPT !.valid_slots = valid_slots,
                        !.h_candidates = Len(valid_slots),
                        !.h_iter.seq = "running",
                        !.h_iter.cf0 = r.consecutive_failures,
                        !.h_iter.cb0 = r.current_backoff], w)

\* a success path that goes on to the next candidate after its notification
booking_succeeded_keeps_going(r, w) ==
    next_slot([r EXCEPT !.valid_slots = Tail(@),
                        !.h_reservations = @ + 1,
                        !.h_notified = @ + 1], w)

\* a success path that sends no notification
booking_succeeded_silently(r, w) ==
    [r EXCEPT !.pc = "BOOKED", !.h_reservations = @ + 1]

\* lines 313-335 and 457-459, 595-597: the result holds a reservation id;
\* send_booking_success(...); return True; session.close(); return
booking_succeeded(r, w) ==
    [r EXCEPT !.pc = "BOOKED",
              !.h_reservations = @ + 1,
              !.h_notified = @ + 1]

\* a notifier without its except clause
send_message_propagates(telegram) ==
    [raised |-> telegram = "error", ok |-> telegram = "delivered"]

\* notifier.send_message, which send_booking_success returns: False when
\* disabled, response.status_code == 200 otherwise, False when the post raises
send_message(telegram) ==
    [raised |-> FALSE, ok |-> telegram = "delivered"]

\* a test of the result that looks at the top level only
has_reservation_id_top_level_only(body) == body = "reservation_id"

\* "reservation_id" in result or
\* ("specs" in result and "reservation_id" in result.get("specs", {}))
has_reservation_id(body) == body \in {"reservation_id", "specs.reservation_id"}

\* a failure backoff that is imposed on every worker through the shared cooldown
Out_imposes_failure_backoff(r) ==
    [r |-> r,
     impose |-> IF r.pc \in {"backoff_sleep", "maxretry_sleep"}
                THEN <<r.sleep_left \div 1000>> ELSE <<>>,
     avail |-> <<>>]

\* what a step of worker w does besides changing its own locals: impose is
\* <<seconds>> when it calls set_global_backoff(seconds), avail is <<date>>
\* when it calls record_availability(date)
Out(r) == [r |-> r, impose |-> <<>>, avail |-> <<>>]

OutImpose(r, seconds) == [r |-> r, impose |-> <<seconds>>, avail |-> <<>>]

OutAvail(r, date) == [r |-> r, impose |-> <<>>, avail |-> <<date>>]

Apply(w, out) ==
    /\ runner' = [runner EXCEPT ![w] = out.r]
    /\ _global_backoff_until' =
           IF out.impose = <<>> THEN _global_backoff_until
           ELSE set_global_backoff(out.impose[1])
    /\ imposer' =
           IF out.impose # <<>> /\ set_global_backoff(out.impose[1]) > _global_backoff_until
           THEN w ELSE imposer
    /\ _stats' =
           IF out.avail = <<>> THEN _stats
           ELSE record_availability(_stats, out.avail[1])
    /\ reports' =
           IF out.avail = <<>> THEN reports
           ELSE record_in_reports(reports, _stats, out.avail[1])
    /\ h_stats' =
           IF out.avail = <<>> THEN h_stats
           ELSE [record_availability(h_stats, out.avail[1]) EXCEPT !.since_report = @ + 1]
    /\ UNCHANGED <<tasks, service, reporting, call,
                   orchestrator, _shutdown_event,
                   _global_backoff_lock>>

Awake(w) == runner[w].sleep_left = 0

\* lines 352-385: the token check and the initial locals
Start(w) ==
    /\ runner[w].pc = "start"
    /\ LET task == TaskOf(w)
           r == Fresh(runner[w])
       IN Apply(w, Out(
            IF ~ check_token_expiry(task.auth_token)
            THEN [r EXCEPT !.pc = "ABORTED"]
            ELSE [r EXCEPT !.pc = "loop",
                           !.scan_count = 0,
                           !.consecutive_failures = 0,
                           !.current_backoff = task.base_backoff,
                           !.was_in_burst = FALSE]))

\* a loop that ends once a sibling has booked
loop_until_sibling_booked(w) ==
    \A v \in Workers \ {w} : runner[v].pc # "BOOKED"

\* line 387: while True
loop_condition(w) == TRUE

\* the model lets a worker start MaxGoodScans iterations more once the
\* service has turned good
GoodScanLeft(w) == service = "good" /\ runner[w].h_good_scans < MaxGoodScans

\* lines 387-388: the iteration begins, scan_count += 1
Scan(w) ==
    /\ runner[w].pc = "loop"
    /\ Awake(w)
    /\ WithinBounds \/ GoodScanLeft(w)
    /\ loop_condition(w)
    /\ runner' = [runner EXCEPT ![w] =
                    [Fresh(runner[w]) EXCEPT
                        !.pc = "count", !.scan_count = @ + 1,
                        !.h_good_scans = IF service = "good" THEN @ + 1 ELSE @]]
    /\ UNCHANGED <<tasks, service, _global_backoff_until, _stats, imposer,
                   reporting, reports, h_stats, call,
                   orchestrator, _shutdown_event,
                   _global_backoff_lock>>

\* lines 389-423 and 467-480: increment_scan_count(), which takes _stats_lock,
\* and the rest of the top of the iteration up to the request
CountScan(w) ==
    /\ runner[w].pc = "count"
    /\ \E current_time \in ClockReadings :
        LET task == TaskOf(w)
            r1 == Fresh(runner[w])
            in_burst == is_burst_time(current_time, task.burst_start, task.burst_end)
            r2 == [r1 EXCEPT !.in_burst = in_burst, !.was_in_burst = in_burst,
                             !.h_mode_log = mode_log(in_burst, r1.was_in_burst)]
        IN /\ runner' = [runner EXCEPT ![w] =
                  IF is_burst_time_raises(task.burst_start, task.burst_end)
                  THEN [r1 EXCEPT !.pc = "CRASHED"]
                  ELSE IF in_burst
                  THEN IssueRequest([r2 EXCEPT !.target_date = task.max_days_out],
                                    w, "burst_find")
                  ELSE IssueRequest(r2, w, "calendar")]
           /\ _stats' = increment_scan_count(_stats)
           /\ h_stats' = [h_stats EXCEPT !.scan_count = @ + 1, !.since_report = @ + 1]
           /\ UNCHANGED <<tasks, service, _global_backoff_until, imposer,
                          reporting, reports, call,
                   orchestrator, _shutdown_event,
                   _global_backoff_lock>>

\* lines 422-465: what the burst branch does with the answer of its slot search
burst_find_response(r0, w, resp) ==
    LET task == TaskOf(w)
        r == [Fresh(r0) EXCEPT !.h_resp = Seen("burst_find", resp)]
        ok == r
        f == filter_slots_by_time(resp.body.slots, task)
        R == retry_after(resp.retry_after, DefaultRetryAfterBurst)
    IN CASE resp.kind = "Timeout" -> Out(burst_retry(r, task))
         [] resp.kind = "ConnectionError" -> Out(burst_retry(r, task))
         [] resp.kind = "Exception" -> Out(except_handler(r, task))
         [] resp.kind = "http" /\ resp.status = 429 -> OutImpose(rate_limited(r, R), R)
         [] resp.kind = "http" /\ resp.status = 200 ->
                IF ~ resp.body.has_venues THEN Out(scan_delay(ok, w))
                ELSE IF f.raised THEN Out(except_handler(ok, task))
                ELSE IF f.valid = <<>> THEN Out(scan_delay(ok, w))
                ELSE OutAvail(try_book_slots(ok, w, f.valid), r.target_date)
         [] OTHER -> Out(scan_delay(r, w))

BurstFindResponse(w) ==
    /\ runner[w].pc = "burst_find"
    /\ \E resp \in FindAnswers : Apply(w, burst_find_response(runner[w], w, resp))

\* lines 480-540 and 608-650: what the idle branch does with the calendar answer
calendar_response(r0, w, resp) ==
    LET task == TaskOf(w)
        r == [Fresh(r0) EXCEPT !.h_resp = Seen("calendar", resp)]
        ok == [reset_failure_tracking(r, task) EXCEPT !.h_streak = 0,
                                                      !.h_fail_sleeps = <<>>]
        R == retry_after(resp.retry_after, DefaultRetryAfterIdle)
    IN CASE resp.kind \in Exceptions -> Out(except_handler(r, task))
         [] resp.kind = "http" /\ resp.status = 429 -> OutImpose(rate_limited(r, R), R)
         [] resp.kind = "http" /\ resp.status = 200 ->
                IF ~ resp.body.has_scheduled
                THEN Out([EndIteration(ok) EXCEPT
                            !.pc = "loop",
                            !.sleep_left = get_current_delay(task, r.in_burst),
                            !.h_iter.cal = "no_scheduled"])
                ELSE IF scheduled_raises(resp.body.scheduled)
                THEN Out(except_handler(
                        [ok EXCEPT !.h_iter.cal = "bad_entry",
                                   !.h_iter.scheduled = resp.body.scheduled], task))
                ELSE Out(next_date(
                        [ok EXCEPT !.dates = available_dates(resp.body.scheduled, task),
                                   !.h_dates = Len(available_dates(resp.body.scheduled, task)),
                                   !.h_iter.cal = "ok",
                                   !.h_iter.scheduled = resp.body.scheduled],
                        w))
         [] OTHER -> Out(calendar_non200(r, task))

CalendarResponse(w) ==
    /\ runner[w].pc = "calendar"
    /\ \E resp \in CalendarAnswers : Apply(w, calendar_response(runner[w], w, resp))

\* a failed slot search that is counted like a failed scan
idle_find_failed_counts_failure(r, w) == except_handler(r, TaskOf(w))

\* lines 561-573: a slot search that timed out, met a connection error or was
\* answered with another status than 200 is logged; continue
idle_find_failed(r, w) == next_date(r, w)

\* lines 561-597: what the idle branch does with the answer of a date's slot search
idle_find_response(r0, w, resp) ==
    LET task == TaskOf(w)
        r == [Fresh(r0) EXCEPT !.h_resp = Seen("idle_find", resp),
                               !.h_iter.seq = "none"]
        f == filter_slots_by_time(resp.body.slots, task)
    IN CASE resp.kind = "Timeout" -> Out(idle_find_failed(r, w))
         [] resp.kind = "ConnectionError" -> Out(idle_find_failed(r, w))
         [] resp.kind = "Exception" -> Out(except_handler(r, task))
         [] resp.kind = "http" /\ resp.status = 200 ->
                IF ~ resp.body.has_results \/ ~ resp.body.has_venues
                THEN Out(next_date(r, w))
                ELSE IF f.raised THEN Out(except_handler(r, task))
                ELSE IF f.valid = <<>> THEN Out(next_date(r, w))
                ELSE OutAvail(try_book_slots(r, w, f.valid), r.target_date)
         [] OTHER -> Out(idle_find_failed(r, w))

IdleFindResponse(w) ==
    /\ runner[w].pc = "idle_find"
    /\ \E resp \in FindAnswers : Apply(w, idle_find_response(runner[w], w, resp))

\* get_details (lines 189-207) as called by try_book_slots (lines 291-302)
details_response(r0, w, resp) ==
    LET r == [Fresh(r0) EXCEPT !.h_resp = Seen("details", resp),
                               !.h_body = IF resp.body THEN "book_token" ELSE "none"]
        rest == [r EXCEPT !.valid_slots = Tail(@)]
        R == retry_after(resp.retry_after, DefaultRetryAfterDetails)
    IN CASE resp.kind = "http" /\ resp.status = 429 ->
                OutImpose([rest EXCEPT !.pc = "book_next", !.sleep_left = R * 1000], R)
         [] resp.kind = "http" /\ resp.status = 200 /\ resp.body ->
                Out([r EXCEPT !.pc = "book", !.h_book_calls = @ + 1])
         [] OTHER -> Out(next_slot(rest, w))

DetailsResponse(w) ==
    /\ runner[w].pc = "details"
    /\ \E resp \in DetailsAnswers : Apply(w, details_response(runner[w], w, resp))

\* book_reservation (lines 245-258) as called by try_book_slots (lines 306-341)
\* and the return of execute_task on success (lines 457-459, 595-597)
book_response(r0, w, resp, telegram) ==
    LET r == [Fresh(r0) EXCEPT !.h_resp = Seen("book", resp), !.h_body = resp.body]
        rest == [r EXCEPT !.valid_slots = Tail(@)]
        R == retry_after(resp.retry_after, DefaultRetryAfterBook)
    IN CASE resp.kind = "http" /\ resp.status = 429 ->
                OutImpose([rest EXCEPT !.pc = "book_next", !.sleep_left = R * 1000], R)
         [] resp.kind = "http" /\ resp.body = "not_object" ->
                Out(except_handler(r, TaskOf(w)))
         [] resp.kind = "http" /\ has_reservation_id(resp.body) ->
                IF send_message(telegram).raised
                THEN Out(except_handler(r, TaskOf(w)))
                ELSE Out([booking_succeeded(r, w) EXCEPT !.h_telegram = telegram])
         [] OTHER -> Out(next_slot(rest, w))

BookResponse(w) ==
    /\ runner[w].pc = "book"
    /\ \E resp \in BookAnswers, telegram \in TelegramAnswers :
          Apply(w, book_response(runner[w], w, resp, telegram))

\* try_book_slots goes on after the sleep of a rate-limited get_details or
\* book_reservation
BookNext(w) ==
    /\ runner[w].pc = "book_next"
    /\ Awake(w)
    /\ Apply(w, Out(next_slot(Fresh(runner[w]), w)))

\* lines 507-509 (and 618-620, 634-636, 648-650) after time.sleep(current_backoff)
AfterBackoffSleep(w) ==
    /\ runner[w].pc = "backoff_sleep"
    /\ Awake(w)
    /\ Apply(w, Out([Fresh(runner[w]) EXCEPT
            !.current_backoff = next_backoff(@, TaskOf(w)),
            !.pc = "loop"]))

\* lines 498-501 (and 614-616, 630-632, 644-646) after time.sleep(task.max_backoff)
AfterMaxRetriesPause(w) ==
    /\ runner[w].pc = "maxretry_sleep"
    /\ Awake(w)
    /\ Apply(w, Out([reset_failure_tracking(Fresh(runner[w]), TaskOf(w)) EXCEPT
            !.pc = "loop"]))

\* wait_for_global_backoff returns from its time.sleep(wait_time) and the delay
\* sleep starts
AfterGlobalBackoffWait(w) ==
    /\ runner[w].pc = "gb_sleep"
    /\ Awake(w)
    /\ Apply(w, Out([delay_sleep(Fresh(runner[w]), w) EXCEPT
            !.h_await_clear =
                IF _global_backoff_until > 0 THEN "future" ELSE "past"]))

\* the timers still running: the sleeps of the workers and the cooldown
Timers ==
    {runner[w].sleep_left : w \in {v \in Workers : runner[v].pc \notin Terminal}}
        \cup {_global_backoff_until}

\* the time to the next expiry
NextExpiry == CHOOSE d \in Timers : d > 0 /\ \A e \in Timers : e > 0 => d <= e

\* time passes up to the next expiry
Tick ==
    /\ \E d \in Timers : d > 0
    /\ runner' = [w \in Workers |->
                    [Fresh(runner[w]) EXCEPT !.sleep_left = Max(0, @ - NextExpiry)]]
    /\ _global_backoff_until' = Max(0, _global_backoff_until - NextExpiry)
    /\ imposer' = IF _global_backoff_until - NextExpiry > 0 THEN imposer ELSE -1
    /\ UNCHANGED <<tasks, service, _stats, reporting, reports, h_stats, call,
                   orchestrator, _shutdown_event,
                   _global_backoff_lock>>

\* scripts/run.py status_reporter, one round of its loop once the interval has
\* passed: scan_count, availability_seen = get_and_reset_stats(); the pair goes
\* to send_status_report
status_reporter ==
    /\ reporting
    /\ ~_shutdown_event
    /\ Len(reports) < MaxReports
    /\ LET got == get_and_reset_stats(_stats, 2 * Len(reports) + 1)
       IN /\ _stats' = got.st
          /\ reports' = Append(reports, got.ret)
    /\ h_stats' = [h_stats EXCEPT !.since_report = 0]
    /\ UNCHANGED <<tasks, service, _global_backoff_until, runner, imposer,
                   reporting, call,
                   orchestrator, _shutdown_event,
                   _global_backoff_lock>>

\* run_tasks after its executor.submit calls: every worker is started, none
\* of the futures is taken from as_completed yet
Submitted == [pc |-> "waiting", collected |-> {}, logged |-> {}]

\* a run_tasks that lets the exception of future.result() through
task_failed_propagates(o, w, pc) ==
    IF pc = "CRASHED" THEN [o EXCEPT !.pc = "raised"]
    ELSE [o EXCEPT !.collected = @ \cup {w}]

\* future.result() of the future of worker w, which ended in pc: it raises
\* what execute_task raised; except Exception logs "Task failed"
future_result(o, w, pc) ==
    IF pc = "CRASHED"
    THEN [o EXCEPT !.collected = @ \cup {w}, !.logged = @ \cup {w}]
    ELSE [o EXCEPT !.collected = @ \cup {w}]

\* a loop over the futures that ends with the first of them
as_completed_first(o) == o.collected # {}

\* the for loop over as_completed(futures) has taken every future
as_completed_exhausted(o) == o.collected = Workers

\* one round of for future in as_completed(futures); after the round that
\* took the last future the loop ends, the with block ends (shutdown(wait=True)
\* with every thread finished) and run_tasks returns
AsCompleted(w) ==
    /\ orchestrator.pc = "waiting"
    /\ w \notin orchestrator.collected
    /\ runner[w].pc \in Terminal
    /\ orchestrator' =
           LET o == future_result(orchestrator, w, runner[w].pc)
           IN IF o.pc = "waiting" /\ as_completed_exhausted(o)
              THEN [o EXCEPT !.pc = "returned"]
              ELSE o
    /\ UNCHANGED <<tasks, service, _global_backoff_until, _stats, runner, imposer,
                   reporting, reports, h_stats, call, _shutdown_event,
                   _global_backoff_lock>>

\* no call of filter_slots_by_time taken by itself
NoCall ==
    [slots |-> <<>>, start_time |-> 0, end_time |-> 0, done |-> FALSE,
     result |-> [raised |-> FALSE, valid |-> <<>>]]

InitRunner ==
    [pc |-> "start", sleep_left |-> 0, scan_count |-> 0, consecutive_failures |-> 0,
     current_backoff |-> 0, was_in_burst |-> FALSE, in_burst |-> FALSE,
     target_date |-> 0, dates |-> <<>>, valid_slots |-> <<>>,
     h_resp |-> NoResp, h_await_clear |-> "none", h_req_in_cooldown |-> FALSE,
     h_fail_sleeps |-> <<>>, h_streak |-> 0,
     h_iter |-> NoIter, h_telegram |-> "none", h_mode_log |-> "none",
     h_good_scans |-> 0,
     h_body |-> "none", h_dates |-> 0, h_candidates |-> 0, h_book_calls |-> 0,
     h_reservations |-> 0, h_notified |-> 0]

\* run_tasks(create_tasks()): one worker per task, thread_index 0..n-1
Init ==
    /\ \E n \in 1..MaxTasks, rc \in RetryConfigs, tok \in AuthTokens,
          due \in BOOLEAN :
           /\ due => rc = settings_retry /\ tok = "valid"
           /\ tasks = create_tasks(n, rc, tok)
           /\ reporting = due
           /\ service = IF due THEN "stats" ELSE IF n = 1 THEN "full" ELSE "lean"
    /\ _global_backoff_until = 0
    /\ _stats = [scan_count |-> 0, availability_seen |-> <<>>, seen_id |-> 0]
    /\ runner = [w \in Workers |-> InitRunner]
    /\ imposer = -1
    /\ reports = <<>>
    /\ h_stats = [scan_count |-> 0, availability_seen |-> <<>>, since_report |-> 0]
    /\ orchestrator = Submitted
    /\ _shutdown_event = FALSE
    /\ _global_backoff_lock = -1
    /\ call = NoCall

Next ==
    \/ Tick
    \/ \E w \in Workers : Start(w)
    \/ \E w \in Workers : Scan(w)
    \/ \E w \in Workers : CountScan(w)
    \/ \E w \in Workers : BurstFindResponse(w)
    \/ \E w \in Workers : CalendarResponse(w)
    \/ \E w \in Workers : IdleFindResponse(w)
    \/ \E w \in Workers : DetailsResponse(w)
    \/ \E w \in Workers : BookResponse(w)
    \/ \E w \in Workers : BookNext(w)
    \/ \E w \in Workers : AfterBackoffSleep(w)
    \/ \E w \in Workers : AfterMaxRetriesPause(w)
    \/ \E w \in Workers : AfterGlobalBackoffWait(w)
    \/ status_reporter
    \/ \E w \in Workers : AsCompleted(w)

Spec == Init /\ [][Next]_vars

----------------------------------------------------------------------------
(* The workers with a service that turns good, under fairness *)

\* the settings with well-formed burst times
GoodRetryConfigs == {rc \in RetryConfigs : rc.burst_start = settings_burst_start}

\* workers with a valid credential, in a run without status reports
LiveInit ==
    /\ \E n \in 1..MaxTasks, rc \in GoodRetryConfigs :
           tasks = create_tasks(n, rc, "valid")
    /\ reporting = FALSE
    /\ service = "failing"
    /\ _global_backoff_until = 0
    /\ _stats = [scan_count |-> 0, availability_seen |-> <<>>, seen_id |-> 0]
    /\ runner = [w \in Workers |-> InitRunner]
    /\ imposer = -1
    /\ reports = <<>>
    /\ h_stats = [scan_count |-> 0, availability_seen |-> <<>>, since_report |-> 0]
    /\ orchestrator = Submitted
    /\ _shutdown_event = FALSE
    /\ _global_backoff_lock = -1
    /\ call = NoCall

\* from here on the remote service gives good answers only
ServiceTurnsGood ==
    /\ service # "good"
    /\ service' = "good"
    /\ UNCHANGED <<tasks, _global_backoff_until, _stats, runner, imposer,
                   reporting, reports, h_stats, call, orchestrator,
                   _shutdown_event, _global_backoff_lock>>

\* a step of execute_task in thread w
WorkerStep(w) ==
    \/ Start(w)
    \/ Scan(w)
    \/ CountScan(w)
    \/ BurstFindResponse(w)
    \/ CalendarResponse(w)
    \/ IdleFindResponse(w)
    \/ DetailsResponse(w)
    \/ BookResponse(w)
    \/ BookNext(w)
    \/ AfterBackoffSleep(w)
    \/ AfterMaxRetriesPause(w)
    \/ AfterGlobalBackoffWait(w)

LiveNext ==
    \/ Tick
    \/ \E w \in Workers : WorkerStep(w)
    \/ ServiceTurnsGood

\* whether thread w has a step to take: it is not in a time.sleep that still
\* runs, has not returned or died, and the model lets it start an iteration
CanStep(w) ==
    /\ w \in Workers
    /\ \/ runner[w].pc \in {"start", "count", "burst_find", "calendar",
                             "idle_find", "details", "book"}
       \/ /\ runner[w].pc \in {"book_next", "backoff_sleep", "maxretry_sleep",
                                "gb_sleep"}
          /\ Awake(w)
       \/ /\ runner[w].pc = "loop"
          /\ Awake(w)
          /\ WithinBounds \/ GoodScanLeft(w)
          /\ loop_condition(w)

\* weak fairness of WorkerStep(w), written with its enabling condition
\* CanStep(w); a step of thread w changes the locals of thread w
WorkerFairness(w) ==
    \/ []<>(~ CanStep(w))
    \/ []<><<w \in Workers /\ runner'[w] # runner[w] /\ WorkerStep(w)>>_vars

\* every thread that can step does so in the end (the operating system
\* schedules every runnable thread), and time passes
LiveSpec ==
    /\ LiveInit
    /\ [][LiveNext]_vars
    /\ WF_vars(Tick)
    /\ \A w \in 0..(MaxTasks - 1) : WorkerFairness(w)

----------------------------------------------------------------------------
(* server/main.py make_request_with_retry taken by itself *)

MAX_RETRIES == 3
RETRY_BACKOFF_BASE == 2

RECURSIVE Pow(_, _)
Pow(b, e) == IF e = 0 THEN 1 ELSE b * Pow(b, e - 1)

\* what one attempt of client.get / client.post comes to: a response, of
\* which the status code counts, or one of the two exceptions the loop catches
RetryStatuses == {200, 429, 499, 500, 503}
RetryErrors == {"TimeoutException", "RequestError"}
RetryOutcomes ==
    [kind : {"response"}, status_code : RetryStatuses]
        \cup [kind : RetryErrors, status_code : {0}]

\* a loop that goes on after a 4xx response
returns_at_once_below_400(status_code) == status_code < 400

\* line 88: if response.status_code < 500: return response
returns_at_once(status_code) == status_code < 500

\* a loop that sleeps after its last attempt too
sleeps_after_attempt_always(attempt, max_retries) == TRUE

\* lines 96, 104, 110: if attempt < max_retries - 1
sleeps_after_attempt(attempt, max_retries) == attempt < max_retries - 1

\* the state of a call before its first attempt: response and last_error are
\* None (0 and "none"); attempt is the loop variable of the next round;
\* requests and sleeps are the history of the call
RetryInit ==
    /\ tasks = <<>>
    /\ service = "full"
    /\ _global_backoff_until = 0
    /\ _stats = [scan_count |-> 0, availability_seen |-> <<>>, seen_id |-> 0]
    /\ runner = <<>>
    /\ imposer = -1
    /\ reporting = FALSE
    /\ reports = <<>>
    /\ h_stats = [scan_count |-> 0, availability_seen |-> <<>>, since_report |-> 0]
    /\ orchestrator = Submitted
    /\ _shutdown_event = FALSE
    /\ _global_backoff_lock = -1
    /\ \E max_retries \in 1..MAX_RETRIES :
         \E outcomes \in [1..max_retries -> RetryOutcomes] :
            call = [max_retries |-> max_retries, outcomes |-> outcomes,
                    attempt |-> 0, response |-> 0, last_error |-> "none",
                    requests |-> 0, sleeps |-> <<>>, done |-> FALSE,
                    result |-> [raised |-> "none", response |-> 0]]

\* lines 78-110: one round of for attempt in range(max_retries)
RetryAttempt ==
    /\ ~ call.done
    /\ call.attempt < call.max_retries
    /\ LET outcome == call.outcomes[call.attempt + 1]
           slept == IF sleeps_after_attempt(call.attempt, call.max_retries)
                    THEN Append(call.sleeps, Pow(RETRY_BACKOFF_BASE, call.attempt))
                    ELSE call.sleeps
           c == [call EXCEPT !.requests = @ + 1]
       IN call' =
            IF outcome.kind \in RetryErrors
            THEN [c EXCEPT !.last_error = outcome.kind, !.sleeps = slept,
                           !.attempt = @ + 1]
            ELSE IF returns_at_once(outcome.status_code)
            THEN [c EXCEPT !.response = outcome.status_code, !.done = TRUE,
                           !.result = [raised |-> "none",
                                       response |-> outcome.status_code]]
            ELSE [c EXCEPT !.response = outcome.status_code, !.sleeps = slept,
                           !.attempt = @ + 1]
    /\ UNCHANGED <<tasks, service, _global_backoff_until, _stats, runner, imposer,
                   reporting, reports, h_stats, orchestrator, _shutdown_event,
                   _global_backoff_lock>>

\* lines 112-116: after the loop
RetryExhausted ==
    /\ ~ call.done
    /\ call.attempt >= call.max_retries
    /\ call' = [call EXCEPT
                  !.done = TRUE,
                  !.result =
                      IF call.last_error # "none"
                      THEN [raised |-> call.last_error, response |-> 0]
                      ELSE IF call.response = 0
                      THEN [raised |-> "RequestError", response |-> 0]
                      ELSE [raised |-> "none", response |-> call.response]]
    /\ UNCHANGED <<tasks, service, _global_backoff_until, _stats, runner, imposer,
                   reporting, reports, h_stats, orchestrator, _shutdown_event,
                   _global_backoff_lock>>

RetryNext ==
    \/ RetryAttempt
    \/ RetryExhausted

RetrySpec == RetryInit /\ [][RetryNext]_vars

----------------------------------------------------------------------------
(* set_global_backoff and wait_for_global_backoff taken statement by statement *)

LockThreads == 0..(MaxTasks - 1)

\* the seconds a caller passes to set_global_backoff
LockSeconds == {1, 2}

\* a wait_for_global_backoff that sleeps inside its with block
lock_holder_in_sleep(t, wait_time) == IF wait_time > 0 THEN t ELSE -1

\* line 58: the with block of wait_for_global_backoff ends after wait_time is
\* computed, before the test and the sleep; the lock is free from there on
lock_holder_after_read(t, wait_time) == -1

LockInit ==
    /\ tasks = <<>>
    /\ service = "full"
    /\ _global_backoff_until = 0
    /\ _stats = [scan_count |-> 0, availability_seen |-> <<>>, seen_id |-> 0]
    /\ runner = <<>>
    /\ imposer = -1
    /\ reporting = FALSE
    /\ reports = <<>>
    /\ h_stats = [scan_count |-> 0, availability_seen |-> <<>>, since_report |-> 0]
    /\ orchestrator = Submitted
    /\ _shutdown_event = FALSE
    /\ _global_backoff_lock = -1
    /\ call = [t \in LockThreads |->
                 [pc |-> "idle", op |-> "none", seconds |-> 0, sleep_left |-> 0,
                  calls |-> 0]]

\* thread t calls set_global_backoff(seconds) or wait_for_global_backoff() and
\* comes to the with statement
LockEnter(t) ==
    /\ call[t].pc = "idle"
    /\ call[t].calls < MaxLockCalls
    /\ \/ \E seconds \in LockSeconds :
            call' = [call EXCEPT ![t] = [@ EXCEPT !.pc = "with",
                                                  !.op = "set_global_backoff",
                                                  !.seconds = seconds,
                                                  !.calls = @ + 1]]
       \/ call' = [call EXCEPT ![t] = [@ EXCEPT !.pc = "with",
                                                !.op = "wait_for_global_backoff",
                                                !.seconds = 0,
                                                !.calls = @ + 1]]
    /\ UNCHANGED <<tasks, service, _global_backoff_until, _stats, runner, imposer,
                   reporting, reports, h_stats, orchestrator, _shutdown_event,
                   _global_backoff_lock>>

\* lines 48 and 56: with _global_backoff_lock takes the lock once it is free
LockAcquire(t) ==
    /\ call[t].pc = "with"
    /\ _global_backoff_lock = -1
    /\ _global_backoff_lock' = t
    /\ call' = [call EXCEPT ![t] = [@ EXCEPT !.pc = "locked"]]
    /\ UNCHANGED <<tasks, service, _global_backoff_until, _stats, runner, imposer,
                   reporting, reports, h_stats, orchestrator, _shutdown_event>>

\* lines 49-51 and 57-61: the body of the with block and its end; after it
\* set_global_backoff returns, and wait_for_global_backoff returns or starts
\* its time.sleep(wait_time)
LockedSection(t) ==
    /\ call[t].pc = "locked"
    /\ _global_backoff_lock = t
    /\ IF call[t].op = "set_global_backoff"
       THEN /\ _global_backoff_until' = set_global_backoff(call[t].seconds)
            /\ _global_backoff_lock' = -1
            /\ call' = [call EXCEPT ![t] = [@ EXCEPT !.pc = "idle"]]
       ELSE LET wait_time == wait_for_global_backoff
            IN /\ _global_backoff_until' = _global_backoff_until
               /\ _global_backoff_lock' = lock_holder_after_read(t, wait_time)
               /\ call' = [call EXCEPT ![t] =
                             [@ EXCEPT !.pc = IF wait_time > 0 THEN "sleep" ELSE "idle",
                                       !.sleep_left = Max(0, wait_time)]]
    /\ UNCHANGED <<tasks, service, _stats, runner, imposer,
                   reporting, reports, h_stats, orchestrator, _shutdown_event>>

\* the timers running: the sleeps of the threads and the cooldown
LockTimers ==
    {call[t].sleep_left : t \in {u \in LockThreads : call[u].pc = "sleep"}}
        \cup {_global_backoff_until}

\* time passes up to the next expiry; a thread whose sleep ends returns from
\* wait_for_global_backoff
LockTick ==
    /\ \E d \in LockTimers : d > 0
    /\ LET d == CHOOSE d \in LockTimers :
                    d > 0 /\ \A e \in LockTimers : e > 0 => d <= e
       IN /\ _global_backoff_until' = Max(0, _global_backoff_until - d)
          /\ call' = [t \in LockThreads |->
                        IF call[t].pc = "sleep"
                        THEN [call[t] EXCEPT
                                !.sleep_left = @ - d,
                                !.pc = IF call[t].sleep_left - d > 0
                                       THEN "sleep" ELSE "idle"]
                        ELSE call[t]]
    /\ UNCHANGED <<tasks, service, _stats, runner, imposer,
                   reporting, reports, h_stats, orchestrator, _shutdown_event,
                   _global_backoff_lock>>

LockNext ==
    \/ \E t \in LockThreads : LockEnter(t)
    \/ \E t \in LockThreads : LockAcquire(t)
    \/ \E t \in LockThreads : LockedSection(t)
    \/ LockTick

LockSpec == LockInit /\ [][LockNext]_vars

----------------------------------------------------------------------------
(* The program with a stop signal *)

\* scripts/run.py signal_handler, run in the main thread on SIGTERM or
\* SIGINT: it sets _shutdown_event and calls sys.exit(0). The SystemExit
\* leaves the loop of run_tasks, whose except Exception does not catch it;
\* the with block then waits in shutdown(wait=True) for the worker threads,
\* none of which reads _shutdown_event
signal_handler ==
    /\ ~_shutdown_event
    /\ _shutdown_event' = TRUE
    /\ orchestrator' = IF orchestrator.pc = "waiting"
                       THEN [orchestrator EXCEPT !.pc = "exiting"]
                       ELSE orchestrator
    /\ UNCHANGED <<tasks, service, _global_backoff_until, _stats, runner, imposer,
                   reporting, reports, h_stats, call, _global_backoff_lock>>

StopNext ==
    \/ Next
    \/ signal_handler

StopSpec == Init /\ [][StopNext]_vars

----------------------------------------------------------------------------
(* filter_slots_by_time taken by itself *)

\* number of slots in the list handed to filter_slots_by_time
MaxSlots == 3

\* config tokens of slots: start hours 15, 16, 22 and 23, a token with too few
\* fields, no token at all (slot.get("config", {}).get("token", "") gives ""),
\* and a token whose hour field is no number
FilterTokens ==
    { Token("1", "5"), Token("1", "6"), Token("2", "2"), Token("2", "3"),
      <<"r", "g", "s", ":", "/", "/", "r", "e", "s", "y">>,
      <<>>,
      Token("x", "x") }

\* the (start_time, end_time) of the task: the settings' window, and the
\* window that ends an hour earlier
FilterWindows ==
    { [start_time |-> resy_start_time, end_time |-> resy_end_time],
      [start_time |-> resy_start_time, end_time |-> resy_end_time - 1] }

FilterSlotLists ==
    UNION { [1..n -> {Slot(t) : t \in FilterTokens}] : n \in 0..MaxSlots }

FilterInit ==
    /\ tasks = <<>>
    /\ service = "full"
    /\ _global_backoff_until = 0
    /\ _stats = [scan_count |-> 0, availability_seen |-> <<>>, seen_id |-> 0]
    /\ runner = <<>>
    /\ imposer = -1
    /\ reporting = FALSE
    /\ reports = <<>>
    /\ h_stats = [scan_count |-> 0, availability_seen |-> <<>>, since_report |-> 0]
    /\ orchestrator = Submitted
    /\ _shutdown_event = FALSE
    /\ _global_backoff_lock = -1
    /\ \E slots \in FilterSlotLists, win \in FilterWindows :
          call = [NoCall EXCEPT !.slots = slots,
                                !.start_time = win.start_time,
                                !.end_time = win.end_time]

\* valid_slots = filter_slots_by_time(slots, task)
FilterCall ==
    /\ ~ call.done
    /\ call' = [call EXCEPT
                  !.done = TRUE,
                  !.result = filter_slots_by_time(call.slots,
                                 [start_time |-> call.start_time,
                                  end_time |-> call.end_time])]
    /\ UNCHANGED <<tasks, service, _global_backoff_until, _stats, runner, imposer,
                   reporting, reports, h_stats, orchestrator, _shutdown_event,
                   _global_backoff_lock>>

FilterNext == FilterCall

FilterSpec == FilterInit /\ [][FilterNext]_vars

----------------------------------------------------------------------------
(* is_burst_time taken by itself *)

\* a day of the clock, in ms
DayMs == 24 * 60 * 60 * 1000

\* the BURST_START and BURST_END strings: "00:00", "08:59:50", "09:00",
\* "09:01:00", "23:59:59"
BurstTimes ==
    { <<"0", "0", ":", "0", "0">>,
      settings_burst_start,
      <<"0", "9", ":", "0", "0">>,
      settings_burst_end,
      <<"2", "3", ":", "5", "9", ":", "5", "9">> }

\* what datetime.now(ET).time() may read: every instant that is a second
\* before, at, or a second after one of the BurstTimes, the half second
\* after each of them, and noon
BurstClockReadings ==
    UNION { { (TimeMs(Split(t, ":")) + DayMs - 1000) % DayMs,
              TimeMs(Split(t, ":")),
              TimeMs(Split(t, ":")) + 500,
              (TimeMs(Split(t, ":")) + 1000) % DayMs } : t \in BurstTimes }
    \cup { 12 * 60 * 60 * 1000 }

BurstInit ==
    /\ tasks = <<>>
    /\ service = "full"
    /\ _global_backoff_until = 0
    /\ _stats = [scan_count |-> 0, availability_seen |-> <<>>, seen_id |-> 0]
    /\ runner = <<>>
    /\ imposer = -1
    /\ reporting = FALSE
    /\ reports = <<>>
    /\ h_stats = [scan_count |-> 0, availability_seen |-> <<>>, since_report |-> 0]
    /\ orchestrator = Submitted
    /\ _shutdown_event = FALSE
    /\ _global_backoff_lock = -1
    /\ \E bs \in BurstTimes, be \in BurstTimes, now \in BurstClockReadings :
          call = [burst_start |-> bs, burst_end |-> be, current_time |-> now,
                  done |-> FALSE, result |-> FALSE]

\* in_burst = is_burst_time(task.burst_start, task.burst_end)
BurstCall ==
    /\ ~ call.done
    /\ ~ is_burst_time_raises(call.burst_start, call.burst_end)
    /\ call' = [call EXCEPT
                  !.done = TRUE,
                  !.result = is_burst_time(call.current_time, call.burst_start,
                                           call.burst_end)]
    /\ UNCHANGED <<tasks, service, _global_backoff_until, _stats, runner, imposer,
                   reporting, reports, h_stats, orchestrator, _shutdown_event,
                   _global_backoff_lock>>

BurstNext == BurstCall

BurstSpec == BurstInit /\ [][BurstNext]_vars

----------------------------------------------------------------------------
(* Properties *)

\* this step is worker w handling the answer of its request to endpoint ep
Handles(w, ep) ==
    /\ runner[w].pc = ep
    /\ runner'[w] # runner[w]
    /\ runner'[w].h_resp.endpoint = ep

Handles429(w, ep) == Handles(w, ep) /\ runner'[w].h_resp.status = 429

\* the Retry-After seconds of the 429 worker w has just handled
HeaderSeconds(w, default) ==
    IF runner'[w].h_resp.retry_after = <<>> THEN default
    ELSE runner'[w].h_resp.retry_after[1]

Base(w) == TaskOf(w).base_backoff

\* C1: the shared cooldown-end timestamp never decreases, and every
\* set_global_backoff(s) call (made on a 429 of the calendar, burst slot-search,
\* details or book request) leaves it at max(previous value, now + s)
C1_CooldownIsMonotonicMax ==
    [][/\ (~ Tick) => _global_backoff_until' >= _global_backoff_until
       /\ \A w \in Workers :
            /\ Handles429(w, "calendar") =>
                 _global_backoff_until' =
                    Max(_global_backoff_until, HeaderSeconds(w, 60) * 1000)
            /\ Handles429(w, "burst_find") =>
                 _global_backoff_until' =
                    Max(_global_backoff_until, HeaderSeconds(w, 5) * 1000)
            /\ Handles429(w, "details") =>
                 _global_backoff_until' =
                    Max(_global_backoff_until, HeaderSeconds(w, 60) * 1000)
            /\ Handles429(w, "book") =>
                 _global_backoff_until' =
                    Max(_global_backoff_until, HeaderSeconds(w, 60) * 1000)]_vars

\* C1 witness: a worker has just imposed 7 s while a longer cooldown imposed by
\* another worker was running, and the longer expiry stands
C1_Witness ==
    \E w \in Workers :
        /\ runner[w].h_resp.status = 429
        /\ runner[w].h_resp.retry_after = <<7>>
        /\ runner[w].sleep_left = 7000
        /\ _global_backoff_until > 7000
        /\ imposer \notin {-1, w}

\* C2: whenever wait_for_global_backoff returns, the shared cooldown-end
\* timestamp is in the past, also when another worker extended it meanwhile
C2_AwaitClearReturnsAfterCooldown ==
    \A w \in Workers : runner[w].h_await_clear # "future"

\* C3: no runner that has finished an iteration issues the first availability
\* request of its next iteration (calendar or burst slot search) while a
\* cooldown imposed by another runner is still running
C3_NoRequestInsideCooldown ==
    \A w \in Workers : ~ runner[w].h_req_in_cooldown

\* C4: a 429 on the idle calendar request or on the burst slot-search request
\* imposes R on the shared cooldown and is followed by exactly one sleep of R
\* and then the next iteration, R being Retry-After or else 60 (idle), 5 (burst)
C4_RateLimitedImposesAndSleepsOnce ==
    [][\A w \in Workers :
        /\ Handles429(w, "calendar") =>
             /\ _global_backoff_until' =
                    Max(_global_backoff_until, HeaderSeconds(w, 60) * 1000)
             /\ runner'[w].pc = "loop"
             /\ runner'[w].sleep_left = HeaderSeconds(w, 60) * 1000
        /\ Handles429(w, "burst_find") =>
             /\ _global_backoff_until' =
                    Max(_global_backoff_until, HeaderSeconds(w, 5) * 1000)
             /\ runner'[w].pc = "loop"
             /\ runner'[w].sleep_left = HeaderSeconds(w, 5) * 1000]_vars

\* C4 witness: a burst slot search answered 429 without Retry-After, and the
\* runner sleeps 5 s before its next iteration
C4_Witness ==
    \E w \in Workers :
        /\ runner[w].h_resp = [endpoint |-> "burst_find", kind |-> "http",
                               status |-> 429, retry_after |-> <<>>]
        /\ runner[w].pc = "loop"
        /\ runner[w].sleep_left = 5000
        /\ _global_backoff_until = 5000

\* C5: handling a 429 changes neither consecutive_failures nor current_backoff
\* and never leads to the failure backoff or the max-retries pause
C5_RateLimitKeepsFailureTracking ==
    [][\A w \in Workers :
        \A ep \in {"calendar", "burst_find", "idle_find", "details", "book"} :
            Handles429(w, ep) =>
                /\ runner'[w].consecutive_failures = runner[w].consecutive_failures
                /\ runner'[w].current_backoff = runner[w].current_backoff
                /\ runner'[w].pc \notin {"backoff_sleep", "maxretry_sleep"}]_vars

\* C5 witness: a runner one failure short of the max-retries pause has just
\* handled a 429 and kept its counter
C5_Witness ==
    \E w \in Workers :
        /\ runner[w].h_resp.status = 429
        /\ runner[w].h_resp.endpoint = "calendar"
        /\ runner[w].consecutive_failures = TaskOf(w).max_retries - 1
        /\ runner[w].pc = "loop"

\* C6: every 429 on an availability query (calendar, burst slot search, idle
\* per-date slot search) imposes the Retry-After value on the shared cooldown
\* and pauses the runner
C6_Every429ImposesAndPauses ==
    [][\A w \in Workers :
        \A ep \in {"calendar", "burst_find", "idle_find"} :
            Handles429(w, ep) =>
                IF runner'[w].h_resp.retry_after = <<>>
                THEN _global_backoff_until' > 0 /\ runner'[w].sleep_left > 0
                ELSE /\ _global_backoff_until' >= runner'[w].h_resp.retry_after[1] * 1000
                     /\ runner'[w].sleep_left = runner'[w].h_resp.retry_after[1] * 1000]_vars

\* C7 as stated: between iterations, after k consecutive counted failures with
\* no successful calendar scan in between, current_backoff is
\* min(base_backoff * 2^k, max_backoff), for every k
C7_BackoffAfterAnyStreak ==
    \A w \in Workers :
        runner[w].pc = "loop" =>
            runner[w].current_backoff =
                Min(Base(w) * 2 ^ runner[w].h_streak, TaskOf(w).max_backoff)

\* the counted failures since consecutive_failures was last reset (by a 200
\* calendar answer or by the max-retries pause)
FailuresSinceReset(w) ==
    IF Len(runner[w].h_fail_sleeps) = TaskOf(w).max_retries THEN 0
    ELSE Len(runner[w].h_fail_sleeps)

\* C7 amended: between iterations, after k < max_retries counted failures
\* since the last reset, consecutive_failures is k and current_backoff is
\* min(base_backoff * 2^k, max_backoff)
C7_BackoffAfterKFailures ==
    \A w \in Workers :
        runner[w].pc = "loop" =>
            /\ FailuresSinceReset(w) < TaskOf(w).max_retries
            /\ runner[w].consecutive_failures = FailuresSinceReset(w)
            /\ runner[w].current_backoff =
                   Min(Base(w) * 2 ^ FailuresSinceReset(w), TaskOf(w).max_backoff)

\* C7 witness: four failures with base 2 and cap 30 leave a backoff of 30
C7_Witness ==
    \E w \in Workers :
        /\ runner[w].pc = "loop"
        /\ Len(runner[w].h_fail_sleeps) = 4
        /\ TaskOf(w).max_backoff = 30
        /\ runner[w].current_backoff = 30

\* C8: the i-th of max_retries consecutive failures sleeps
\* min(base_backoff * 2^(i-1), max_backoff) for i < max_retries and max_backoff
\* for i = max_retries, after which consecutive_failures is 0 and
\* current_backoff is base_backoff
C8_FailureSleeps ==
    \A w \in Workers :
        LET fs == runner[w].h_fail_sleeps
            m == TaskOf(w).max_retries
        IN /\ Len(fs) <= m
           /\ \A i \in 1..Len(fs) :
                fs[i] = 1000 * (IF i < m
                                THEN Min(Base(w) * 2 ^ (i - 1), TaskOf(w).max_backoff)
                                ELSE TaskOf(w).max_backoff)
           /\ (Len(fs) = m /\ runner[w].pc # "maxretry_sleep") =>
                /\ runner[w].consecutive_failures = 0
                /\ runner[w].current_backoff = Base(w)

\* C8 witness: max_retries=5, base_backoff=2, max_backoff=30; the fifth
\* consecutive failure is a 500 calendar answer and the sleeps were 2,4,8,16,30
C8_Witness ==
    \E w \in Workers :
        /\ runner[w].h_fail_sleeps = <<2000, 4000, 8000, 16000, 30000>>
        /\ runner[w].h_resp.endpoint = "calendar"
        /\ runner[w].h_resp.status = 500
        /\ runner[w].pc = "maxretry_sleep"

\* C9: a 200 answer to the availability query of an iteration (calendar in
\* idle mode, slot search in burst mode) whose handling raises nothing leaves
\* consecutive_failures at 0 and current_backoff at base_backoff
C9_SuccessResetsFailureTracking ==
    [][\A w \in Workers :
        \A ep \in {"calendar", "burst_find"} :
            (/\ Handles(w, ep)
             /\ runner'[w].h_resp.status = 200
             /\ runner'[w].pc \notin {"backoff_sleep", "maxretry_sleep"}) =>
                /\ runner'[w].consecutive_failures = 0
                /\ runner'[w].current_backoff = Base(w)]_vars

\* this step is worker w handling a timeout, a connection error or a non-200,
\* non-429 answer of its burst slot search
BurstFailure(w) ==
    /\ Handles(w, "burst_find")
    /\ \/ runner'[w].h_resp.kind \in {"Timeout", "ConnectionError"}
       \/ runner'[w].h_resp.kind = "http" /\ runner'[w].h_resp.status \notin {200, 429}

C11_OnlyBookedOrAborted ==
    \A w \in Workers : runner[w].pc \notin (Terminal \ {"BOOKED", "ABORTED"})

\* C12: a runner whose token is expired at startup stops in ABORTED: it
\* never enters the loop, issues no request, records no scan and imposes no
\* cooldown
C12_InvalidTokenAborts ==
    /\ \A w \in Workers :
            TaskOf(w).auth_token = "expired" =>
                /\ runner[w].pc \in {"start", "ABORTED"}
                /\ runner[w].scan_count = 0
                /\ runner[w].h_resp = NoResp
                /\ imposer # w
    /\ (\A w \in Workers : TaskOf(w).auth_token = "expired") =>
            /\ _stats.scan_count = 0
            /\ DOMAIN _stats.availability_seen = {}
            /\ _global_backoff_until = 0

\* C12 witness: two runners built from settings with an expired token have
\* both stopped in ABORTED
C12_Witness ==
    /\ Len(tasks) = 2
    /\ \A w \in Workers :
            /\ TaskOf(w).auth_token = "expired"
            /\ runner[w].pc = "ABORTED"

\* C13: a runner receives at most one reservation and sends one success
\* notification for it; from the successful booking on it is in BOOKED, where
\* it fetches no token and submits no booking for the later candidates
C13_AtMostOneReservation ==
    \A w \in Workers :
        /\ runner[w].h_reservations <= 1
        /\ runner[w].h_notified = runner[w].h_reservations
        /\ runner[w].h_reservations = 1 <=> runner[w].pc = "BOOKED"

\* C13 witness: the first of two candidates was booked; the later one was
\* never tried
C13_Witness ==
    \E w \in Workers :
        /\ runner[w].pc = "BOOKED"
        /\ runner[w].h_candidates = 2
        /\ Len(runner[w].valid_slots) = 2
        /\ runner[w].h_book_calls = 1
        /\ runner[w].h_notified = 1

\* C14: a 429 on the token fetch or on the booking submission is followed by
\* one sleep of the Retry-After seconds and then by the return of false: no
\* token is fetched and no booking submitted for the remaining candidates
C14_RateLimitAbortsSequence ==
    [][\A w \in Workers :
        /\ \A ep \in {"details", "book"} :
              Handles429(w, ep) =>
                /\ runner'[w].sleep_left = HeaderSeconds(w, 60) * 1000
                /\ runner'[w].pc \notin {"details", "book"}
        /\ (runner[w].pc = "book_next" /\ runner'[w].pc # "book_next") =>
                runner'[w].pc \notin {"details", "book"}]_vars

\* the candidate just handled is dropped: the next one in list order is
\* tried, or the sequence ends with false when none is left
MovedToNextCandidate(w) ==
    IF Tail(runner[w].valid_slots) # <<>>
    THEN /\ runner'[w].valid_slots = Tail(runner[w].valid_slots)
         /\ runner'[w].pc \in {"details", "book_next"}
    ELSE runner'[w].pc \notin {"details", "book", "BOOKED"}

\* C15: try_book_slots takes the candidates in list order; it submits a
\* booking for a candidate iff the token fetch returned a token, and moves to
\* the next candidate otherwise; it ends with true (BOOKED) iff a booking
\* answer holds a reservation id at the top level or under specs, and with
\* false only when no candidate is left; a booking answer whose JSON is no
\* object makes it raise, which returns neither true nor false and tries no
\* further candidate
C15_SequencerOrderAndResult ==
    [][\A w \in Workers :
        /\ (runner[w].pc \notin {"details", "book", "book_next"}
             /\ runner'[w].pc = "details") =>
                /\ runner'[w].h_candidates = Len(runner'[w].valid_slots)
                /\ runner'[w].h_candidates > 0
        /\ Handles(w, "details") =>
                IF /\ runner'[w].h_resp.kind = "http"
                   /\ runner'[w].h_resp.status = 200
                   /\ runner'[w].h_body = "book_token"
                THEN /\ runner'[w].pc = "book"
                     /\ runner'[w].valid_slots = runner[w].valid_slots
                ELSE runner'[w].pc # "book" /\ MovedToNextCandidate(w)
        /\ Handles(w, "book") =>
                IF /\ runner'[w].h_resp.kind = "http"
                   /\ runner'[w].h_resp.status # 429
                   /\ runner'[w].h_body \in {"reservation_id", "specs.reservation_id"}
                THEN runner'[w].pc = "BOOKED"
                ELSE IF runner'[w].h_body = "not_object"
                THEN runner'[w].pc \notin {"details", "book", "book_next", "BOOKED"}
                ELSE MovedToNextCandidate(w)
        /\ (runner[w].pc = "book_next" /\ runner'[w].pc # "book_next") =>
                IF runner[w].valid_slots # <<>>
                THEN /\ runner'[w].pc = "details"
                     /\ runner'[w].valid_slots = runner[w].valid_slots
                ELSE runner'[w].pc \notin {"details", "book", "BOOKED"}
        /\ (runner[w].pc # "BOOKED" /\ runner'[w].pc = "BOOKED") =>
                runner[w].pc = "book"]_vars

\* C15 witness: the token fetch for the first of two candidates failed and
\* the second was booked on an answer with the reservation id under specs
C15_Witness ==
    \E w \in Workers :
        /\ runner[w].pc = "BOOKED"
        /\ runner[w].h_candidates = 2
        /\ Len(runner[w].valid_slots) = 1
        /\ runner[w].h_book_calls = 1
        /\ runner[w].h_body = "specs.reservation_id"

\* C16: in an idle iteration whose calendar answer gave one available date in
\* range and whose slot search gave one candidate, a booking answer holding a
\* reservation_id ends the runner in BOOKED after exactly one booking
\* submission and one success notification, with no further scan
C16_EndToEndBooking ==
    [][\A w \in Workers :
        (/\ Handles(w, "book")
         /\ ~ runner[w].in_burst
         /\ runner[w].h_dates = 1
         /\ runner[w].h_candidates = 1
         /\ runner'[w].h_resp.status = 200
         /\ runner'[w].h_body = "reservation_id") =>
            /\ runner'[w].pc = "BOOKED"
            /\ runner'[w].h_book_calls = 1
            /\ runner'[w].h_reservations = 1
            /\ runner'[w].h_notified = 1
            /\ runner'[w].scan_count = runner[w].scan_count]_vars

\* C16 witness: the scenario's runner in BOOKED after its first scan
C16_Witness ==
    \E w \in Workers :
        /\ runner[w].pc = "BOOKED"
        /\ ~ runner[w].in_burst
        /\ runner[w].scan_count = 1
        /\ runner[w].h_dates = 1
        /\ runner[w].h_candidates = 1
        /\ runner[w].h_book_calls = 1
        /\ runner[w].h_notified = 1
        /\ runner[w].h_body = "reservation_id"

----------------------------------------------------------------------------
(* Shared statistics and the status reports *)

\* the scans that the reports rs show, all together
ReportedScans(rs) ==
    LET RECURSIVE sum(_)
        sum(i) == IF i = 0 THEN 0 ELSE rs[i].scan_count + sum(i - 1)
    IN sum(Len(rs))

\* the count a statistics record shows for a date
SeenOn(st, date) ==
    IF date \in DOMAIN st.availability_seen THEN st.availability_seen[date] ELSE 0

\* the availability that the reports rs show for a date, all together
ReportedSeen(rs, date) ==
    LET RECURSIVE sum(_)
        sum(i) == IF i = 0 THEN 0 ELSE SeenOn(rs[i], date) + sum(i - 1)
    IN sum(Len(rs))

\* the dates a record or a report can mention
StatDates ==
    DOMAIN _stats.availability_seen \cup DOMAIN h_stats.availability_seen
        \cup UNION {DOMAIN reports[i].availability_seen : i \in DOMAIN reports}

\* what a report shows, the dict object aside
Shown(rep) == [scan_count |-> rep.scan_count, availability_seen |-> rep.availability_seen]

\* C17: no recording is lost and none is counted twice: the scan counts of all
\* reports plus the current scan count equal the number of scan recordings
\* made so far, and for every date the reported counts plus the current count
\* equal the number of availability recordings for that date.
C17_DrainLosesNothing ==
    /\ ReportedScans(reports) + _stats.scan_count = h_stats.scan_count
    /\ \A d \in StatDates :
          ReportedSeen(reports, d) + SeenOn(_stats, d) = SeenOn(h_stats, d)

\* C17 witness: a report took a scan and an availability, and both were
\* recorded again afterwards.
C17_Witness ==
    /\ Len(reports) >= 1
    /\ reports[1].scan_count >= 1
    /\ DOMAIN reports[1].availability_seen # {}
    /\ _stats.scan_count >= 1
    /\ DOMAIN _stats.availability_seen # {}

\* C18: a report taken when nothing was recorded since the previous one shows
\* a zero count and an empty map, and what a report shows never changes once
\* it is taken, whatever is recorded later.
C18_DrainResetsAndReturnsOwnMap ==
    [][ /\ Len(reports') >= Len(reports)
        /\ \A i \in DOMAIN reports : Shown(reports'[i]) = Shown(reports[i])
        /\ (Len(reports') > Len(reports) /\ Len(reports) >= 1 /\ h_stats.since_report = 0)
              => /\ reports'[Len(reports')].scan_count = 0
                 /\ DOMAIN reports'[Len(reports')].availability_seen = {} ]_vars

\* C18 witness: a first report with a scan and an availability, directly
\* followed by a second one, and an availability recorded after both.
C18_Witness ==
    /\ Len(reports) = 2
    /\ reports[1].scan_count = 1
    /\ DOMAIN reports[1].availability_seen # {}
    /\ reports[2].scan_count = 0
    /\ DOMAIN reports[2].availability_seen = {}
    /\ DOMAIN _stats.availability_seen # {}

\* the scans counted in the shared statistics, reported or not
SharedScans == ReportedScans(reports) + _stats.scan_count

\* the workers between their two increments (after line 388, before the
\* increment_scan_count() of line 389 has returned)
BetweenIncrements == {w \in Workers : runner[w].pc = "count"}

\* C19 as stated: at every moment the scans counted in the shared statistics
\* equal the sum of the workers' own scan counters.
C19_SharedEqualsLocal == SharedScans = TotalScans

\* C19: every loop iteration raises the worker's own scan counter by one and
\* then the shared scan counter by one, whatever the iteration ends in; at
\* every moment the scans counted in the shared statistics plus the workers
\* between their two increments equal the sum of the workers' own counters.
C19_IterationCountsOnce ==
    SharedScans + Cardinality(BetweenIncrements) = TotalScans

\* C19 witness: two iterations of the only worker, one reported and one not,
\* the second of them cut short by a 429 answer.
C19_Witness ==
    /\ Len(reports) = 1
    /\ reports[1].scan_count = 1
    /\ _stats.scan_count = 1
    /\ \E w \in Workers :
          /\ runner[w].scan_count = 2
          /\ runner[w].h_resp.status = 429

----------------------------------------------------------------------------
(* The slot filter *)

\* the fields of a config token
TokenParts(slot) == Split(slot.token, "/")

\* the slot's token has the field that encodes the start time
HasTimeField(slot) == Len(TokenParts(slot)) > 8

\* the slot's token encodes a start hour
EncodesHour(slot) ==
    HasTimeField(slot) /\ IntOk(Split(TokenParts(slot)[9], ":")[1])

\* the start hour the slot's token encodes
HourOf(slot) == IntOf(Split(TokenParts(slot)[9], ":")[1])

\* the slot's encoded hour lies in the window of the call
InWindow(slot) ==
    /\ EncodesHour(slot)
    /\ call.start_time <= HourOf(slot)
    /\ HourOf(slot) <= call.end_time

\* C20: on a list whose slots each encode a start hour or have no time field
\* at all, the filter returns exactly the slots whose hour h satisfies
\* start_time <= h <= end_time, in the order of the input, each with the first
\* five characters of its time field.
C20_FilterKeepsWindowInOrder ==
    (call.done /\ \A i \in DOMAIN call.slots :
                     HasTimeField(call.slots[i]) => EncodesHour(call.slots[i]))
    => LET kept == SelectSeq(call.slots, InWindow)
       IN /\ ~ call.result.raised
          /\ Len(call.result.valid) = Len(kept)
          /\ \A i \in DOMAIN kept :
                /\ call.result.valid[i].config_token = kept[i].token
                /\ call.result.valid[i].time_str = SubSeq(TokenParts(kept[i])[9], 1, 5)

\* C20 witness: hours 23, 15 and 16 against the window 16..23: the slot at 15
\* is left out, and 23 and 16, both on a bound, are kept in that order.
C20_Witness ==
    /\ call.done
    /\ call.start_time = 16 /\ call.end_time = 23
    /\ call.slots = <<Slot(Token("2", "3")), Slot(Token("1", "5")), Slot(Token("1", "6"))>>
    /\ Len(call.result.valid) = 2
    /\ call.result.valid[1].config_token = Token("2", "3")
    /\ call.result.valid[2].config_token = Token("1", "6")

\* C21: the filter never raises: whatever the tokens of the list (missing,
\* too short, or with an hour field that is no number), the call returns, and
\* it returns the slots whose encoded hour lies in the window, in input order.
C21_FilterNeverRaises ==
    call.done
    => LET kept == SelectSeq(call.slots, InWindow)
       IN /\ ~ call.result.raised
          /\ Len(call.result.valid) = Len(kept)
          /\ \A i \in DOMAIN kept :
                call.result.valid[i].config_token = kept[i].token

----------------------------------------------------------------------------
(* The burst window *)

\* the window of the call, as dt_time values
WindowStart == TimeMs(Split(call.burst_start, ":"))

WindowEnd == TimeMs(Split(call.burst_end, ":"))

\* the time of day one second before the window starts, and one second after
\* it ends
SecondBeforeStart == (WindowStart + DayMs - 1000) % DayMs

SecondAfterEnd == (WindowEnd + 1000) % DayMs

\* the reading lies on a whole second from burst_start to burst_end
OnSecondInWindow ==
    /\ call.current_time % 1000 = 0
    /\ WindowStart <= call.current_time
    /\ call.current_time <= WindowEnd

\* C22 as stated: for every window with burst_start <= burst_end the answer
\* is true at burst_start, at burst_end and at every second between them, and
\* false one second before burst_start and one second after burst_end.
C22_BurstWindowEverywhere ==
    (call.done /\ WindowStart <= WindowEnd)
    => /\ OnSecondInWindow => call.result
       /\ call.current_time = SecondBeforeStart => ~ call.result
       /\ call.current_time = SecondAfterEnd => ~ call.result

\* C22: for every window with burst_start <= burst_end the answer is true at
\* burst_start, at burst_end and at every second between them; it is false
\* one second before burst_start when burst_start is after 00:00:00, and one
\* second after burst_end when burst_end is before 23:59:59.
C22_BurstWindowWithinDay ==
    (call.done /\ WindowStart <= WindowEnd)
    => /\ OnSecondInWindow => call.result
       /\ (call.current_time = SecondBeforeStart /\ WindowStart >= 1000)
             => ~ call.result
       /\ (call.current_time = SecondAfterEnd /\ WindowEnd + 1000 < DayMs)
             => ~ call.result

\* C22 witness: the settings' window 08:59:50 to 09:01:00 read at 09:01:00
\* sharp, which is inside.
C22_Witness ==
    /\ call.done
    /\ call.burst_start = settings_burst_start
    /\ call.burst_end = settings_burst_end
    /\ call.current_time = WindowEnd
    /\ call.result

----------------------------------------------------------------------------
(* The two branches of an iteration *)

\* worker w is in, or has just left, an iteration that issued a request
InIteration(w) == runner[w].h_iter # NoIter

\* the iteration of worker w has just ended without a booking
IterationOver(w) == InIteration(w) /\ runner[w].pc \in BetweenIterations

\* the sleeps of the burst branch: burst_delay after a timeout or a connection
\* error, burst_delay plus the stagger otherwise
BurstDelays(w) ==
    {TaskOf(w).burst_delay, TaskOf(w).burst_delay + w * stagger_burst_ms}

\* what holds of a burst iteration from its request on: no calendar request,
\* one slot search, for the date today + max_days_out
BurstIterationSearchesOnce(w) ==
    /\ runner[w].pc \notin {"calendar", "idle_find"}
    /\ runner[w].h_iter.cal_calls = 0
    /\ runner[w].h_iter.find_calls = 1
    /\ runner[w].h_iter.searched = <<TaskOf(w).max_days_out>>

\* the worker waits for the shared cooldown, the burst delay to follow, or is
\* in the burst delay
InBurstDelay(w) ==
    \/ runner[w].pc = "gb_sleep"
    \/ runner[w].pc = "loop" /\ runner[w].sleep_left \in BurstDelays(w)

\* C23 as stated: a burst iteration issues no calendar request and exactly
\* one slot search, for today + max_days_out, and when it ends without a
\* booking the worker goes to the burst delay.
C23_BurstAlwaysEndsInBurstDelay ==
    \A w \in Workers :
        (runner[w].in_burst /\ InIteration(w))
        => /\ BurstIterationSearchesOnce(w)
           /\ IterationOver(w) => InBurstDelay(w)

\* C23: a burst iteration issues no calendar request and exactly one slot
\* search, for today + max_days_out. When it ends without a booking the worker
\* goes to the burst delay, except that a 429 answer to the slot search makes
\* it sleep the Retry-After seconds, and an exception other than the slot
\* search's timeout or connection error makes it take the failure backoff; in
\* no case does the iteration go on to a calendar scan.
C23_BurstSkipsCalendar ==
    \A w \in Workers :
        (runner[w].in_burst /\ InIteration(w))
        => /\ BurstIterationSearchesOnce(w)
           /\ IterationOver(w) =>
                \/ InBurstDelay(w)
                \/ /\ runner[w].h_resp.endpoint = "burst_find"
                   /\ runner[w].h_resp.status = 429
                   /\ runner[w].pc = "loop"
                   /\ runner[w].sleep_left =
                        1000 * (IF runner[w].h_resp.retry_after = <<>>
                                THEN DefaultRetryAfterBurst
                                ELSE runner[w].h_resp.retry_after[1])
                \/ /\ runner[w].pc \in {"backoff_sleep", "maxretry_sleep"}
                   /\ runner[w].h_resp.kind \notin {"Timeout", "ConnectionError"}
                   /\ runner[w].h_resp.status # 429

\* C23 witness: a burst iteration whose one slot search found a candidate,
\* whose booking attempt failed, and which went to the burst delay.
C23_Witness ==
    \E w \in Workers :
        /\ runner[w].in_burst
        /\ IterationOver(w)
        /\ runner[w].h_iter.seq = "left"
        /\ runner[w].h_iter.searched = <<TaskOf(w).max_days_out>>
        /\ runner[w].pc = "loop"
        /\ runner[w].sleep_left = TaskOf(w).burst_delay + w * stagger_burst_ms

\* the dates of the calendar answer of worker w's iteration that are flagged
\* available and lie min_days_out to max_days_out days from today, in the
\* order of the answer
DatesToSearch(w) ==
    LET wanted(e) == /\ e.reservation = "available"
                     /\ TaskOf(w).min_days_out <= e.date
                     /\ e.date <= TaskOf(w).max_days_out
        sel == SelectSeq(runner[w].h_iter.scheduled, wanted)
    IN [i \in 1..Len(sel) |-> sel[i].date]

IsPrefix(s, t) == Len(s) <= Len(t) /\ s = SubSeq(t, 1, Len(s))

\* what holds of an idle iteration from its well-formed calendar answer on:
\* one calendar request, and the dates searched so far are the first of the
\* dates to search, in their order, the last of them the one being worked on
IdleIterationSearchesInOrder(w) ==
    /\ runner[w].h_iter.cal_calls = 1
    /\ runner[w].h_iter.find_calls = Len(runner[w].h_iter.searched)
    /\ IsPrefix(runner[w].h_iter.searched, DatesToSearch(w))
    /\ runner[w].pc = "BOOKED" =>
          /\ runner[w].h_iter.searched # <<>>
          /\ runner[w].target_date = runner[w].h_iter.searched[Len(runner[w].h_iter.searched)]

\* C24 as stated: after a well-formed 200 calendar answer the idle iteration
\* searches exactly the available dates in range, in the order of the answer,
\* up to the first date whose booking attempt succeeds: an iteration that
\* ends without a booking has searched all of them.
C24_IdleSearchesEveryDate ==
    \A w \in Workers :
        runner[w].h_iter.cal = "ok"
        => /\ IdleIterationSearchesInOrder(w)
           /\ IterationOver(w) => runner[w].h_iter.searched = DatesToSearch(w)

\* C24: after a well-formed 200 calendar answer the idle iteration searches
\* only available dates in range, in the order of the answer, one after the
\* other; it stops at the first date whose booking attempt succeeds, and it
\* has searched all of them when it ends without a booking, unless an
\* exception (other than a slot search's timeout or connection error) ended it
\* in a failure backoff, the later dates left unsearched.
C24_IdleSearchesDatesInOrder ==
    \A w \in Workers :
        runner[w].h_iter.cal = "ok"
        => /\ IdleIterationSearchesInOrder(w)
           /\ (IterationOver(w) /\ runner[w].pc \in {"loop", "gb_sleep"})
                => runner[w].h_iter.searched = DatesToSearch(w)

\* C24 witness: of the five dates of a calendar answer, at 1, 2, 3, 21 and 22
\* days, the third sold out, the iteration searched those at 2 and at 21 days
\* and ended without a booking.
C24_Witness ==
    \E w \in Workers :
        /\ runner[w].h_iter.cal = "ok"
        /\ Len(runner[w].h_iter.scheduled) = 5
        /\ runner[w].h_iter.searched = <<2, 21>>
        /\ IterationOver(w)
        /\ runner[w].pc = "loop"

----------------------------------------------------------------------------
(* The end of an iteration *)

\* current_delay(task, in_burst) plus the stagger offset of worker w
DelayWithStagger(w) ==
    IF runner[w].in_burst
    THEN TaskOf(w).burst_delay + w * stagger_burst_ms
    ELSE TaskOf(w).idle_delay + w * stagger_idle_ms

\* C25: an iteration that ends without a booking, a 429 or a counted failure
\* (a 200 answer without the expected fields included) ends with a call of
\* wait_for_global_backoff followed by a sleep of current_delay plus the
\* worker's stagger offset.
C25_IterationEndsWithAwaitAndStagger ==
    \A w \in Workers :
        (IterationOver(w) /\ runner[w].pc = "loop" /\ runner[w].h_resp.status # 429)
        => /\ runner[w].h_await_clear # "none"
           /\ runner[w].sleep_left = DelayWithStagger(w)

\* C26: a 200 calendar answer without the scheduled list, or with an entry
\* without its inventory/reservation field, counts as an empty result: no
\* failure is counted, no failure backoff is taken, no booking is attempted,
\* and the worker goes on to the next scan after the normal delay.
C26_MalformedCalendarIsEmptyResult ==
    \A w \in Workers :
        (IterationOver(w) /\ runner[w].h_iter.cal \in {"no_scheduled", "bad_entry"})
        => /\ runner[w].consecutive_failures = 0
           /\ runner[w].pc \notin {"backoff_sleep", "maxretry_sleep"}
           /\ runner[w].h_iter.find_calls = 0
           /\ runner[w].h_iter.seq = "none"
           /\ \/ runner[w].pc = "gb_sleep"
              \/ /\ runner[w].pc = "loop"
                 /\ runner[w].sleep_left \in {TaskOf(w).idle_delay, DelayWithStagger(w)}

----------------------------------------------------------------------------
(* Failures inside the booking sequence *)

\* C27: while try_book_slots runs and when it has returned False, whatever
\* get_details and book_reservation met (a rejection, no book token, a 429,
\* a network error), consecutive_failures and current_backoff are what they
\* were when it was called, no failure backoff is taken, and afterwards the
\* worker goes on to the next date or to its normal delay. (The booking
\* answers meant are JSON objects.)
C27_BookingFailureIsNoError ==
    \A w \in Workers :
        (runner[w].h_iter.seq # "none" /\ runner[w].h_body # "not_object")
        => /\ runner[w].consecutive_failures = runner[w].h_iter.cf0
           /\ runner[w].current_backoff = runner[w].h_iter.cb0
           /\ runner[w].pc \notin {"backoff_sleep", "maxretry_sleep"}
           /\ runner[w].h_iter.seq = "left" =>
                \/ runner[w].pc \in {"idle_find", "gb_sleep"}
                \/ runner[w].pc = "loop" /\ runner[w].sleep_left = DelayWithStagger(w)

\* C27 witness: a burst iteration entered with one failure counted; its
\* booking submission was rejected with a message, the count is still one
\* and the worker is in its burst delay.
C27_Witness ==
    \E w \in Workers :
        /\ runner[w].h_iter.seq = "left"
        /\ runner[w].h_resp.endpoint = "book"
        /\ runner[w].h_body = "message"
        /\ runner[w].h_iter.cf0 = 1
        /\ runner[w].consecutive_failures = 1
        /\ runner[w].pc = "loop"

----------------------------------------------------------------------------
(* Notifications *)

\* C28: a booking answer with a reservation id takes the worker to BOOKED with
\* its failure tracking untouched, whether the notification was delivered,
\* was refused, raised an error or is disabled; the fate of the notification
\* shows nowhere else in the worker.
C28_NotificationNeverStopsBooking ==
    \A w \in Workers :
        /\ (runner[w].h_resp.endpoint = "book"
              /\ runner[w].h_body \in {"reservation_id", "specs.reservation_id"})
            => /\ runner[w].pc = "BOOKED"
               /\ runner[w].h_telegram \in TelegramOutcomes
               /\ runner[w].h_reservations = 1
               /\ runner[w].consecutive_failures = runner[w].h_iter.cf0
               /\ runner[w].current_backoff = runner[w].h_iter.cb0
        /\ runner[w].h_telegram # "none" => runner[w].pc = "BOOKED"

\* C28 witness: a worker at BOOKED whose notification raised an error.
C28_Witness ==
    \E w \in Workers :
        /\ runner[w].pc = "BOOKED"
        /\ runner[w].h_resp.endpoint = "book"
        /\ runner[w].h_telegram = "error"

\* C29: run_tasks has exactly one worker per task, the worker of the i-th task
\* bound to thread_index i with the indices being 0..n-1, and it has returned
\* only in states where every worker has terminated and every future was taken.
C29_OneWorkerPerTaskAndWaitsForAll ==
    /\ DOMAIN runner = 0..(Len(tasks) - 1)
    /\ Cardinality(DOMAIN runner) = Len(tasks)
    /\ \A w \in DOMAIN runner : TaskOf(w) = tasks[w + 1]
    /\ orchestrator.collected \subseteq DOMAIN runner
    /\ orchestrator.pc = "returned"
        => \A w \in DOMAIN runner :
              runner[w].pc \in Terminal /\ w \in orchestrator.collected

\* C29 witness: run_tasks has returned from a run of two workers, both of
\* which stopped on the missing auth token.
C29_Witness ==
    /\ Len(tasks) = 2
    /\ DOMAIN runner = {0, 1}
    /\ orchestrator.pc = "returned"
    /\ runner[0].pc = "ABORTED"
    /\ runner[1].pc = "ABORTED"

\* the step in which worker w raises out of execute_task
Raises(w) == runner[w].pc # "CRASHED" /\ runner'[w].pc = "CRASHED"

\* the step in which run_tasks takes the future of worker w
Takes(w) == w \notin orchestrator.collected /\ w \in orchestrator'.collected

\* C30: the step in which a worker raises leaves every sibling and run_tasks
\* as they were; taking the future of a worker that raised logs it, leaves
\* every worker as it was and leaves run_tasks waiting for the futures not
\* yet taken, never raising; and run_tasks returns only once every worker has
\* terminated, with exactly the workers that raised logged.
C30_WorkerFailureIsContained ==
    [][ /\ orchestrator'.pc \in {"waiting", "returned"}
        /\ \A w \in Workers :
              /\ Raises(w)
                  => /\ \A v \in Workers \ {w} : runner'[v] = runner[v]
                     /\ orchestrator' = orchestrator
                     /\ _global_backoff_until' = _global_backoff_until
              /\ Takes(w) /\ runner[w].pc = "CRASHED"
                  => /\ runner' = runner
                     /\ w \in orchestrator'.logged
                     /\ orchestrator'.pc = "waiting"
                          <=> orchestrator'.collected # Workers
        /\ orchestrator'.pc = "returned"
            => /\ \A w \in Workers : runner'[w].pc \in Terminal
               /\ orchestrator'.logged
                    = {w \in Workers : runner'[w].pc = "CRASHED"} ]_vars

\* C30 witness: the failure of worker 0 is caught and logged while its sibling
\* is in the middle of an iteration of its own loop.
C30_Witness ==
    /\ Len(tasks) = 2
    /\ orchestrator.pc = "waiting"
    /\ runner[0].pc = "CRASHED"
    /\ 0 \in orchestrator.logged
    /\ runner[1].pc = "count"
    /\ runner[1].scan_count = 1

\* C31: once the stop is signalled, no worker that has run an iteration and
\* slept starts another one: its scan_count stays as it is.
C31_StoppedWorkerStartsNoScan ==
    [][\A w \in Workers :
          (_shutdown_event /\ runner[w].scan_count >= 1)
              => runner'[w].scan_count = runner[w].scan_count]_vars

\* C32: the iteration that evaluates the mode logs "enter" iff it is in burst
\* and the worker's previous iteration was not (a worker without a previous
\* iteration counts as not in burst), "exit" iff it is not in burst and the
\* previous iteration was, and nothing iff the mode is the same; no other
\* step of the worker logs a transition.
C32_TransitionLoggedOncePerEdge ==
    [][\A w \in Workers :
          IF runner[w].pc = "count" /\ runner'[w].pc \notin {"count", "CRASHED"}
          THEN /\ runner'[w].h_mode_log = "enter"
                    <=> (runner'[w].in_burst /\ ~runner[w].in_burst)
               /\ runner'[w].h_mode_log = "exit"
                    <=> (~runner'[w].in_burst /\ runner[w].in_burst)
               /\ runner'[w].h_mode_log = "none"
                    <=> (runner'[w].in_burst = runner[w].in_burst)
          ELSE runner'[w] = runner[w] \/ runner'[w].h_mode_log = "none"]_vars

\* C32 witness: a worker logs the exit from burst mode in its third
\* iteration, after an iteration that logged nothing.
C32_Witness ==
    \E w \in Workers :
        /\ runner[w].h_mode_log = "exit"
        /\ runner[w].scan_count = 3
        /\ ~runner[w].in_burst

\* the first attempt whose response has a status below 500, 0 if there is none
FirstBelow500 ==
    LET hits == {i \in 1..call.max_retries :
                    /\ call.outcomes[i].kind = "response"
                    /\ call.outcomes[i].status_code < 500}
    IN IF hits = {} THEN 0 ELSE CHOOSE i \in hits : \A j \in hits : i <= j

\* C33: make_request_with_retry makes at most max_retries attempts; a response
\* with a status below 500 (429 included) is returned by the attempt that got
\* it, which is the last attempt made; after the k-th attempt that did not
\* return it has slept 1, 2, ..., 2^(k-1) seconds, except that nothing follows
\* the last of max_retries attempts; and when every attempt got a 5xx response
\* the call returns the last of them and raises nothing.
C33_RetryLoop ==
    /\ call.requests <= call.max_retries
    /\ ~call.done => call.requests = call.attempt
    /\ FirstBelow500 # 0 => call.requests <= FirstBelow500
    /\ (call.done /\ FirstBelow500 # 0)
        => /\ call.requests = FirstBelow500
           /\ call.result = [raised |-> "none",
                             response |-> call.outcomes[FirstBelow500].status_code]
    /\ LET failed == IF call.done /\ FirstBelow500 # 0 THEN call.requests - 1
                     ELSE call.requests
           slept == IF failed = call.max_retries THEN failed - 1 ELSE failed
       IN call.sleeps = [i \in 1..slept |-> Pow(2, i - 1)]
    /\ (call.done /\ \A i \in 1..call.max_retries :
                        /\ call.outcomes[i].kind = "response"
                        /\ call.outcomes[i].status_code >= 500)
        => /\ call.requests = call.max_retries
           /\ call.result =
                [raised |-> "none",
                 response |-> call.outcomes[call.max_retries].status_code]

\* C33 witness: a call that got a 500 and a 503 and then returned a 429 from
\* its third attempt, having slept 1 and 2 seconds.
C33_Witness ==
    /\ call.done
    /\ call.outcomes = <<[kind |-> "response", status_code |-> 500],
                         [kind |-> "response", status_code |-> 503],
                         [kind |-> "response", status_code |-> 429]>>
    /\ call.requests = 3
    /\ call.sleeps = <<1, 2>>
    /\ call.result = [raised |-> "none", response |-> 429]

\* C34: a finished call has raised a timeout or request error only if every
\* attempt ended in such an exception; if an attempt produced a response the
\* call returns the last response received.
C34_RaisesOnlyIfEveryAttemptFailed ==
    call.done =>
        LET responses == {i \in 1..call.requests : call.outcomes[i].kind = "response"}
        IN /\ call.result.raised \in RetryErrors => responses = {}
           /\ responses # {}
               => call.result =
                    [raised |-> "none",
                     response |-> call.outcomes[CHOOSE i \in responses :
                                          \A j \in responses : j <= i].status_code]

\* C35: where an iteration starts (the worker is about to run line 388 or has
\* just run it), 0 <= consecutive_failures < max_retries and
\* base_backoff <= current_backoff <= max_backoff; every task of the model has
\* max_retries >= 1 and base_backoff <= max_backoff.
C35_FailureTrackingInRange ==
    \A w \in Workers :
        /\ TaskOf(w).max_retries >= 1
        /\ TaskOf(w).base_backoff <= TaskOf(w).max_backoff
        /\ runner[w].pc \in {"loop", "count"}
            => /\ 0 <= runner[w].consecutive_failures
               /\ runner[w].consecutive_failures < TaskOf(w).max_retries
               /\ TaskOf(w).base_backoff <= runner[w].current_backoff
               /\ runner[w].current_backoff <= TaskOf(w).max_backoff

\* C35 witness: an iteration starts one failure short of the max-retries
\* pause with current_backoff at its cap.
C35_Witness ==
    \E w \in Workers :
        /\ runner[w].pc = "count"
        /\ runner[w].consecutive_failures = TaskOf(w).max_retries - 1
        /\ runner[w].current_backoff = TaskOf(w).max_backoff
        /\ TaskOf(w).base_backoff < TaskOf(w).max_backoff

\* C36: a thread asleep in wait_for_global_backoff never holds
\* _global_backoff_lock; the lock is only ever held by a thread inside a with
\* block, whose next step frees it; so a thread that has called
\* set_global_backoff can either take the lock now or the holder can step and
\* free it, whoever is asleep; and as long as a call is under way some step is
\* possible.
C36_SleeperHoldsNoLock ==
    /\ \A t \in LockThreads :
          call[t].pc = "sleep" => _global_backoff_lock # t
    /\ _global_backoff_lock # -1
        => /\ call[_global_backoff_lock].pc = "locked"
           /\ ENABLED LockedSection(_global_backoff_lock)
    /\ \A t \in LockThreads :
          (call[t].pc = "with" /\ call[t].op = "set_global_backoff")
              => \/ ENABLED LockAcquire(t)
                 \/ \E u \in LockThreads \ {t} :
                       /\ call[u].pc = "locked"
                       /\ ENABLED LockedSection(u)
    /\ (\E t \in LockThreads : call[t].pc # "idle") => ENABLED LockNext

\* C36 witness: a thread holds the lock inside set_global_backoff while
\* another is asleep in wait_for_global_backoff.
C36_Witness ==
    \E t \in LockThreads, u \in LockThreads :
        /\ call[t].pc = "sleep"
        /\ call[t].sleep_left > 0
        /\ call[u].pc = "locked"
        /\ call[u].op = "set_global_backoff"
        /\ _global_backoff_lock = u

\* the reservations the workers have obtained
TotalReservations ==
    LET RECURSIVE sum(_)
        sum(w) == IF w < 0 THEN 0 ELSE runner[w].h_reservations + sum(w - 1)
    IN sum(Len(tasks) - 1)

\* C37: a worker holds one reservation exactly when it is BOOKED and none
\* otherwise, so the process holds as many as it has BOOKED workers; and a
\* worker that is awake at the top of its loop can start its next iteration
\* whether or not a sibling is BOOKED, as long as the model's bounds allow it.
C37_BookingLeavesSiblingsPolling ==
    /\ \A w \in Workers :
          runner[w].h_reservations = IF runner[w].pc = "BOOKED" THEN 1 ELSE 0
    /\ TotalReservations = Cardinality({w \in Workers : runner[w].pc = "BOOKED"})
    /\ \A v \in Workers :
          (/\ runner[v].pc = "loop"
           /\ runner[v].sleep_left = 0
           /\ WithinBounds \/ GoodScanLeft(v))
              => ENABLED Scan(v)

\* C37 witness: both workers of a run are BOOKED, with two reservations in
\* total, the second obtained in an iteration started after the first.
C37_Witness ==
    /\ Len(tasks) = 2
    /\ runner[0].pc = "BOOKED"
    /\ runner[1].pc = "BOOKED"
    /\ TotalReservations = 2
    /\ runner[0].scan_count # runner[1].scan_count

----------------------------------------------------------------------------
(* A failed slot search in the idle scan *)

\* the slot search of the idle scan that worker w's step has just answered
\* failed: a timeout, a connection error or a status other than 200
IdleSearchFailed(w) ==
    /\ runner[w].pc = "idle_find"
    /\ runner'[w].h_resp.endpoint = "idle_find"
    /\ \/ runner'[w].h_resp.kind \in {"Timeout", "ConnectionError"}
       \/ runner'[w].h_resp.kind = "http" /\ runner'[w].h_resp.status # 200

\* C38: a timeout, a connection error or a status other than 200 on the slot
\* search of one date of an idle scan leaves consecutive_failures,
\* current_backoff and the shared cooldown as they are; the search of the next
\* available date follows if there is one, and otherwise the scan ends with
\* wait_for_global_backoff and the sleep of the idle delay plus the stagger.
C38_FailedDateIsSkipped ==
    [][\A w \in Workers :
          IdleSearchFailed(w)
          => /\ runner'[w].consecutive_failures = runner[w].consecutive_failures
             /\ runner'[w].current_backoff = runner[w].current_backoff
             /\ _global_backoff_until' = _global_backoff_until
             /\ runner'[w].h_iter.seq = "none"
             /\ IF runner[w].dates # <<>>
                THEN /\ runner'[w].pc = "idle_find"
                     /\ runner'[w].target_date = Head(runner[w].dates)
                     /\ runner'[w].dates = Tail(runner[w].dates)
                     /\ runner'[w].h_iter.searched =
                            Append(runner[w].h_iter.searched, Head(runner[w].dates))
                ELSE \/ /\ _global_backoff_until > 0
                        /\ runner'[w].pc = "gb_sleep"
                        /\ runner'[w].sleep_left = _global_backoff_until
                     \/ /\ _global_backoff_until = 0
                        /\ runner'[w].pc = "loop"
                        /\ runner'[w].h_await_clear = "past"
                        /\ runner'[w].sleep_left =
                               TaskOf(w).idle_delay + w * stagger_idle_ms]_vars

\* C38 witness: an idle scan with two dates to search has ended in its delay
\* sleep without a counted failure; the search of the first date had failed,
\* and the second date was searched and answered 500.
C38_Witness ==
    \E w \in Workers :
        /\ runner[w].pc = "loop"
        /\ runner[w].h_await_clear = "past"
        /\ runner[w].h_resp.endpoint = "idle_find"
        /\ runner[w].h_resp.status = 500
        /\ runner[w].h_iter.searched = <<2, 21>>
        /\ runner[w].h_iter.seq = "none"
        /\ runner[w].consecutive_failures = 0
        /\ _stats.availability_seen = <<>>

----------------------------------------------------------------------------
(* What changes the shared cooldown *)

\* C39: the shared cooldown-end timestamp changes only in the step in which a
\* worker handles a 429 answer (of the calendar, burst slot search, details or
\* booking request); every other step of a worker, of the reporter and of
\* run_tasks leaves it as it is. (Tick is the passing of time, against which
\* the timestamp is measured.)
C39_CooldownChangesOnlyOn429 ==
    [][(~ Tick /\ _global_backoff_until' # _global_backoff_until)
         => \E w \in Workers :
               \E ep \in {"calendar", "burst_find", "details", "book"} :
                   Handles429(w, ep)]_vars

\* C39 witness: a worker has just counted a timeout and gone into its failure
\* backoff sleep while the 60 s cooldown another worker imposed stands as it
\* was.
C39_Witness ==
    \E w \in Workers :
        /\ runner[w].pc = "backoff_sleep"
        /\ runner[w].h_resp.kind = "Timeout"
        /\ runner[w].consecutive_failures > 0
        /\ _global_backoff_until = 60000
        /\ imposer \notin {-1, w}

\* C40: under weak fairness of the steps of the workers and of time, once the
\* service has turned good every worker is eventually BOOKED.
C40_GoodServiceLeadsToBooked ==
    \A w \in 0..(MaxTasks - 1) :
        (w \in Workers /\ service = "good")
            ~> (w \in Workers /\ runner[w].pc = "BOOKED")

\* C40 witness: a worker is BOOKED in the iteration it started after the
\* service had turned good, with the failures of its earlier iteration still
\* counted.
C40_Witness ==
    \E w \in Workers :
        /\ service = "good"
        /\ runner[w].pc = "BOOKED"
        /\ runner[w].h_good_scans = 1
        /\ runner[w].h_fail_sleeps # <<>>
        /\ runner[w].h_streak > 0

====
